---- MODULE Spec2Model ----
(***************************************************************************)
(* The snake game of the arcade console and its game-master: SnakeGame     *)
(* (game logic), Snake.tsx (the screen controller's handlers),             *)
(* SnakeAIAnalyzer (lifecycle hooks), SnakePunishmentSystem (escalation    *)
(* state machine and interference effects), SnakeBehaviorTracker           *)
(* (classifier) and SnakeCommentaryGenerator (start commentary).           *)
(*                                                                         *)
(* Time is Date.now() in milliseconds, counted from an origin that a       *)
(* session start of Spec moves so that the start falls on StartInstant:    *)
(* the code Spec models compares instants of one session with each other   *)
(* and with 0.  The tracker's lastMoveTime outlives a session; the         *)
(* specifications that keep it let the clock run on.  Ratios (metrics,     *)
(* placement weights) are integers in thousandths.  The velocity           *)
(* multiplier is a                                                         *)
(* fixed-point integer in units of 1/60000, in which the baseline creep    *)
(* 1 + (timeAlive/1000/30)*0.5 is exactly SpeedOne + timeAlive; the        *)
(* surge's *1.5 and /1.5 round down to that unit.                          *)
(*                                                                         *)
(* Not modelled: rendering-only fields (fakeFood.flickerState/lastFlicker, *)
(* environmentalEffects, lastBlockSpawn, corruptionStartTime), the text of *)
(* commentary messages (an event carries its trigger category; a taunt the *)
(* category of the text getMidGameTaunt picks).  The state the screen      *)
(* keeps (AIState) carries the fields the properties below read; its       *)
(* commentaryEvents are kept in the analyzer only.                         *)
(*                                                                         *)
(* Specifications.  Spec is the game on the screen: the interval of        *)
(* Snake.tsx, the keys and the buttons.  In Spec, SnakeBehaviorTracker's   *)
(* move lists are not kept: the metrics computed                           *)
(* from all recorded moves (wallHuggingFrequency, turnBias, spiral         *)
(* detection) take a value of PersistentViews at each recorded move, those *)
(* computed from the last five sessions' moves a value of WindowViews at   *)
(* each end of a session that made a move; the session list and the        *)
(* metrics derived from it are computed as the code computes them.         *)
(* SpecHooks calls the analyzer's hooks in any order, as a caller other    *)
(* than the screen may, and keeps what each call returned (call) and the   *)
(* commentary display of Snake.tsx (disp): the text on the screen, the     *)
(* queue, the cooldown stamp and the events of the render being shown.     *)
(* SpecBlocks is the obstacle placement of SnakePunishmentSystem on        *)
(* sampled snakes and foods, with the sequence of Math.random() positions  *)
(* given as a number of misses followed by a cell.  SpecMetrics and        *)
(* SpecSpiral are SnakeBehaviorTracker with the moves themselves kept,     *)
(* the first for the metrics of calculateMetrics, the second for the       *)
(* direction history and the spiral counter.  SpecWindow follows the       *)
(* session list over more than ten completed sessions, SpecQuery the       *)
(* tracker under calls of calculateMetrics and classifyBehavior.           *)
(* SpecSurge is updateSpeedCorruption over the evaluations of one session  *)
(* next to a twin that is never told of a food being eaten; SpecBias is    *)
(* updateFoodBias on drawn metrics.  SpecGreed is calculateGreedThreshold  *)
(* over sessions kept with their start and end times.  SpecClimb follows   *)
(* the escalation level over the evaluated ticks of a session, under weak  *)
(* fairness of the tick; SpecFailures the consecutive-failure counter of   *)
(* SnakeAIAnalyzer over the ends of successive sessions.                   *)
(*                                                                         *)
(* Two other parts of the console have a variable each.  breaker is the    *)
(* BlockBreakerAIAnalyzer with its BlockBreakerCorruptionSystem: the       *)
(* corruption level and its counters, the fake, regenerating and stubborn  *)
(* blocks, the commentary cooldown and the setTimeout callbacks that are   *)
(* pending; SpecBreaker sends it the events of BlockBreaker.tsx and runs   *)
(* the callbacks when they are due.  ledger is the ConsoleBehaviorTracker  *)
(* with the HttpMemoryStore: the ledger in memory, the save requests in    *)
(* flight with the body each was sent with, and what the server stored;    *)
(* SpecLedger calls the recording methods and lets every request settle   *)
(* with success or with one of the three failures save() throws on.        *)
(* Timestamps of the ledger (Date.now() in launch and session records)     *)
(* are not kept.                                                           *)
(* Math.random() is a choice: over the cells named by the bounds for       *)
(* positions, over both outcomes for the probability tests of decoys,      *)
(* fluctuation and obstacles, and over TauntDraws, DecoyCommentDraws for   *)
(* the probability tests of the ambient comments.                          *)
(***************************************************************************)
EXTENDS Integers, Sequences, FiniteSets, TLC

(***************************************************************************)
(* Bounds of the model.                                                    *)
(***************************************************************************)
\* The board is GridSize x GridSize cells (Snake.tsx constructs 20 x 20).
GridSize == 4
\* The games of a run make at most MaxMoves moves together.
MaxMoves == 3
\* At most MaxSessions sessions are started (SnakeBehaviorTracker.sessionCounter).
MaxSessions == 2
\* Math.random() coordinates are drawn from the last RandSpan columns/rows.
RandSpan == 2

\* The screen's 50 ms interval has looked at the game when the game-loop timer
\* fires, up to MaxLag moves.
MaxLag == 1

\* The candidates of generateBlockPosition are drawn from the first BlockSpan
\* columns/rows.
BlockSpan == 2
\* The random decoys of level 3 are drawn from the last ExtraSpan columns of
\* the centre row.
ExtraSpan == 1

\* getFakeFoods adds at most MaxExtras random decoys (the code: at most 2).
MaxExtras == 1

\* Delays after which the game-loop timer fires (ms since the previous
\* instant): a tick on time at any speed setting, and a tick held back (a
\* suspended page).
Delays == {300, 30000}

Null == "null"
\* The absent position (fakeFood.position = null, generateBlockPosition = null).
NoCell == <<-1, -1>>
Directions == {"UP", "DOWN", "LEFT", "RIGHT"}
Coords == 0 .. (GridSize - 1)
Cells == Coords \X Coords
\* Outcomes of Math.floor(Math.random() * gridWidth) that the model draws.
RandCoords == {c \in Coords : c >= GridSize - RandSpan}
RandCells == RandCoords \X RandCoords
BlockCells == {c \in Cells : c[1] < BlockSpan /\ c[2] < BlockSpan}
ExtraCells == {c \in Cells : c[1] >= GridSize - ExtraSpan /\ c[2] = GridSize \div 2}

Min(a, b) == IF a < b THEN a ELSE b
Max(a, b) == IF a > b THEN a ELSE b
Abs(a) == IF a < 0 THEN -a ELSE a

RECURSIVE SumSeq(_)
SumSeq(s) == IF s = <<>> THEN 0 ELSE Head(s) + SumSeq(Tail(s))

SeqToSet(s) == {s[i] : i \in 1 .. Len(s)}
\* F applied to the value of x: the statements of a method, one after the other.
Then(x, F(_)) == CHOOSE y \in {F(v) : v \in {x}} : TRUE
FilterOut(s, c) == SelectSeq(s, LAMBDA e : e # c)
CountOf(s, c) == Cardinality({i \in 1 .. Len(s) : s[i] = c})

(***************************************************************************)
(* SnakePunishmentSystem                                                   *)
(***************************************************************************)
\* speedMultiplier 1.0 in fixed point (units of 1/60000).
SpeedOne == 60 * 1000
SpeedCap == 3 * SpeedOne

\* punishmentState and the private fields of a fresh or reset system.
FreshPunishment ==
    [corruptionLevel |-> 0,
     fakeFood |-> [active |-> FALSE, position |-> NoCell, triggerReason |-> ""],
     environmentalBlocks |-> <<>>,
     foodEatenSinceLastBlock |-> 0,
     speedMultiplier |-> SpeedOne,
     speedSurgeActive |-> FALSE,
     speedFluctuationActive |-> FALSE,
     foodBias |-> [wallBias |-> 0, bodyBias |-> 0],
     lastCommentaryTime |-> 0,
     gameStartTime |-> 0,
     lastFoodEaten |-> 0,
     speedEscalationTimer |-> 0,
     lastSpeedIncrease |-> 0]

\* A mutant of UpdateCorruptionLevel: the three tests are not chained by
\* `else`, so one evaluation can climb several levels.
UpdateCorruptionLevelFallThrough(level, timeAlive, snakeLength) ==
    LET l1 == IF level = 0 /\ (timeAlive >= 10000 \/ snakeLength >= 6) THEN 1 ELSE level
        l2 == IF l1 = 1 /\ (timeAlive >= 20000 \/ snakeLength >= 11) THEN 2 ELSE l1
        l3 == IF l2 = 2 /\ (timeAlive >= 30000 \/ snakeLength >= 16) THEN 3 ELSE l2
    IN  l3

\* A mutant of UpdateCorruptionLevel: the length thresholds are those of the
\* score in food (5, 10, 15) instead of the length (6, 11, 16).
UpdateCorruptionLevelFoodCount(level, timeAlive, snakeLength) ==
    IF level = 0
    THEN IF timeAlive >= 10000 \/ snakeLength >= 5 THEN 1 ELSE 0
    ELSE IF level = 1
    THEN IF timeAlive >= 20000 \/ snakeLength >= 10 THEN 2 ELSE 1
    ELSE IF level = 2
    THEN IF timeAlive >= 30000 \/ snakeLength >= 15 THEN 3 ELSE 2
    ELSE level

\* A mutant of UpdateCorruptionLevel: the last step needs the time and the
\* length together.
UpdateCorruptionLevelBothNeeded(level, timeAlive, snakeLength) ==
    IF level = 0
    THEN IF timeAlive >= 10000 \/ snakeLength >= 6 THEN 1 ELSE 0
    ELSE IF level = 1
    THEN IF timeAlive >= 20000 \/ snakeLength >= 11 THEN 2 ELSE 1
    ELSE IF level = 2
    THEN IF timeAlive >= 30000 /\ snakeLength >= 16 THEN 3 ELSE 2
    ELSE level

\* updateCorruptionLevel: timeSeconds = timeAlive / 1000.
UpdateCorruptionLevel(level, timeAlive, snakeLength) ==
    IF level = 0
    THEN IF timeAlive >= 10000 \/ snakeLength >= 6 THEN 1 ELSE 0
    ELSE IF level = 1
    THEN IF timeAlive >= 20000 \/ snakeLength >= 11 THEN 2 ELSE 1
    ELSE IF level = 2
    THEN IF timeAlive >= 30000 \/ snakeLength >= 16 THEN 3 ELSE 2
    ELSE level

\* A mutant of UpdateFakeFood: an active decoy is moved to the food of the
\* tick.
UpdateFakeFoodFollowing(p, m, currentFood, now, r25) ==
    IF p.fakeFood.active
    THEN [p EXCEPT !.fakeFood.position = currentFood]
    ELSE LET chance  == p.corruptionLevel >= 1 /\ r25
             afterFood == /\ p.corruptionLevel >= 2
                          /\ p.lastFoodEaten > 0
                          /\ now - p.lastFoodEaten > 1000
             comfort == m.comfortZoneSize > 700 /\ m.riskTolerance < 200
             reason  == IF comfort THEN "Comfort detected. Let's fix that."
                        ELSE IF afterFood THEN "That food wasn't for you."
                        ELSE "You're playing it safe. I hate that."
         IN  IF chance \/ afterFood \/ comfort
             THEN [p EXCEPT !.fakeFood = [active |-> TRUE,
                                          position |-> currentFood,
                                          triggerReason |-> reason]]
             ELSE p

\* updateFakeFood: r25 is the outcome of Math.random() < 0.25.
UpdateFakeFood(p, m, currentFood, now, r25) ==
    IF p.fakeFood.active
    THEN p
    ELSE LET chance  == p.corruptionLevel >= 1 /\ r25
             afterFood == /\ p.corruptionLevel >= 2
                          /\ p.lastFoodEaten > 0
                          /\ now - p.lastFoodEaten > 1000
             comfort == m.comfortZoneSize > 700 /\ m.riskTolerance < 200
             reason  == IF comfort THEN "Comfort detected. Let's fix that."
                        ELSE IF afterFood THEN "That food wasn't for you."
                        ELSE "You're playing it safe. I hate that."
         IN  IF chance \/ afterFood \/ comfort
             THEN \* activateFakeFood
                  [p EXCEPT !.fakeFood = [active |-> TRUE,
                                          position |-> currentFood,
                                          triggerReason |-> reason]]
             ELSE p

\* 1000 * sin(d / 150) for d milliseconds into a fluctuation window, sampled
\* every 100 ms.
SinTable ==
    <<0, 618, 972, 909, 457, -191, -757, -999, -813, -279,
      374, 867, 989, 688, 91, -544, -946, -943, -537, 100,
      694, 991, 863, 366, -288, -818, -999, -751, -182, 465>>
SinMilli(d) == SinTable[((d \div 100) % 30) + 1]

\* A mutant of CapSpeed: the final cap is missing.
CapSpeedMissing(s) == s

\* Math.min(3.0, speedMultiplier)
CapSpeed(s) == Min(SpeedCap, s)

\* A mutant of BaseSpeedIncrease: the baseline stops at +50%.
BaseSpeedIncreaseCapped(timeAlive) == Min(SpeedOne + timeAlive, (SpeedOne * 3) \div 2)

\* baseSpeedIncrease = 1.0 + (timeSeconds / 30) * 0.5, which is one unit of
\* 1/60000 per millisecond.
BaseSpeedIncrease(timeAlive) == SpeedOne + timeAlive

\* updateSpeedCorruption: rFluct is the outcome of Math.random() < 0.15.
UpdateSpeedCorruption(p, m, now, timeAlive, rFluct) ==
    LET base == BaseSpeedIncrease(timeAlive)
        s0 == Max(p.speedMultiplier, base)
        comfort == m.comfortZoneSize > 600 /\ now - p.lastSpeedIncrease > 3000
        s1 == IF comfort THEN s0 + (SpeedOne \div 10) ELSE s0
        lastInc == IF comfort THEN now ELSE p.lastSpeedIncrease
        lvl == p.corruptionLevel
        surgeOn == lvl >= 2 /\ p.lastFoodEaten > 0 /\ now - p.lastFoodEaten < 800
        surgeOff == /\ lvl >= 2
                    /\ ~surgeOn
                    /\ p.speedSurgeActive
                    /\ now - p.lastFoodEaten > 1500
        s2 == IF surgeOn THEN (s1 * 3) \div 2
              ELSE IF surgeOff THEN (s1 * 2) \div 3
              ELSE s1
        surge == IF surgeOn THEN TRUE
                 ELSE IF surgeOff THEN FALSE
                 ELSE p.speedSurgeActive
        startFl == lvl >= 3 /\ ~p.speedFluctuationActive /\ rFluct
        timer == IF startFl THEN now + 3000 ELSE p.speedEscalationTimer
        flActive == IF startFl THEN TRUE ELSE p.speedFluctuationActive
        inWindow == lvl >= 3 /\ flActive /\ now < timer
        fluctuation == 42000 + 66 * SinMilli(now - (timer - 3000))
        s3 == IF inWindow THEN Max(42000, Min(108000, fluctuation)) ELSE s2
        fl == IF lvl >= 3 /\ flActive /\ ~(now < timer) THEN FALSE ELSE flActive
    IN  [p EXCEPT !.speedMultiplier = CapSpeed(s3),
                  !.lastSpeedIncrease = lastInc,
                  !.speedSurgeActive = surge,
                  !.speedFluctuationActive = fl,
                  !.speedEscalationTimer = timer]

\* Math.max over metrics.turnBias
MaxTurnBias(m) ==
    Max(Max(m.turnBias.left, m.turnBias.right), Max(m.turnBias.up, m.turnBias.down))

\* A mutant of UpdateFoodBias: the greed rule never lowers the wall bias the
\* other rules left.
UpdateFoodBiasRaising(p, m) ==
    LET w1 == IF m.comfortZoneSize > 700 THEN 600 ELSE p.foodBias.wallBias
        b1 == IF MaxTurnBias(m) > 400 THEN 500 ELSE p.foodBias.bodyBias
        w2 == IF m.lengthBasedGreedThreshold > 300 /\ m.wallHuggingFrequency < 200
              THEN Max(w1, Min(800, m.lengthBasedGreedThreshold))
              ELSE w1
    IN  [p EXCEPT !.foodBias = [wallBias |-> w2, bodyBias |-> b1]]

\* updateFoodBias
UpdateFoodBias(p, m) ==
    LET w1 == IF m.comfortZoneSize > 700 THEN 600 ELSE p.foodBias.wallBias
        b1 == IF MaxTurnBias(m) > 400 THEN 500 ELSE p.foodBias.bodyBias
        w2 == IF m.lengthBasedGreedThreshold > 300 /\ m.wallHuggingFrequency < 200
              THEN Min(800, m.lengthBasedGreedThreshold)
              ELSE w1
    IN  [p EXCEPT !.foodBias = [wallBias |-> w2, bodyBias |-> b1]]

\* generateMidGameCommentary: cooldown is the drawn cooldown; every line of
\* the pools is a non-empty string, so a commentary is produced exactly when
\* one of the four tests holds.
GenerateMidGameCommentary(p, m, now, cooldown) ==
    IF now - p.lastCommentaryTime < cooldown
    THEN p
    ELSE IF \/ p.corruptionLevel >= 1
            \/ (p.fakeFood.active /\ p.fakeFood.triggerReason # "")
            \/ p.speedMultiplier > 72000
            \/ MaxTurnBias(m) > 500
         THEN [p EXCEPT !.lastCommentaryTime = now]
         ELSE p

AdjacentToHead(head, c) == Abs(head[1] - c[1]) <= 1 /\ Abs(head[2] - c[2]) <= 1

\* A mutant of ValidBlockPosition: the obstacles already placed are not
\* looked at.
ValidBlockPositionIgnoringBlocks(p, snake, food, c) ==
    /\ c \notin SeqToSet(snake)
    /\ c # food
    /\ ~AdjacentToHead(snake[1], c)

\* The four tests of generateBlockPosition on a candidate c.
ValidBlockPosition(p, snake, food, c) ==
    /\ c \notin SeqToSet(snake)
    /\ c # food
    /\ ~AdjacentToHead(snake[1], c)
    /\ c \notin SeqToSet(p.environmentalBlocks)

\* The candidates generateBlockPosition accepts.
ValidBlockCells(p, snake, food) ==
    {c \in BlockCells : ValidBlockPosition(p, snake, food, c)}

\* const maxAttempts = 50
MaxAttempts == 50

\* The cells Math.random() gives to the attempts of one
\* generateBlockPosition: the first stream.misses of them are the head, all
\* later ones stream.then.
Candidate(stream, attempt, snake) ==
    IF attempt < stream.misses THEN snake[1] ELSE stream.then

\* The for loop of generateBlockPosition with limit attempts: it returns at
\* the first attempt whose candidate passes the tests.  The position
\* returned, NoCell for null, and the number of candidates sampled.
TryBlockPosition(p, snake, food, stream, limit) ==
    LET hits == {attempt \in 0 .. (limit - 1) :
                    ValidBlockPosition(p, snake, food,
                                       Candidate(stream, attempt, snake))}
    IN  IF hits = {}
        THEN [position |-> NoCell, attempts |-> limit]
        ELSE LET first == CHOOSE attempt \in hits : \A other \in hits : attempt <= other
             IN  [position |-> Candidate(stream, first, snake),
                  attempts |-> first + 1]

\* A mutant of GenerateBlockPosition: the loop makes one attempt more.
GenerateBlockPositionOneMore(p, snake, food, stream) ==
    TryBlockPosition(p, snake, food, stream, MaxAttempts + 1)

\* generateBlockPosition
GenerateBlockPosition(p, snake, food, stream) ==
    TryBlockPosition(p, snake, food, stream, MaxAttempts)

\* shouldSpawnBlock of updateEnvironmentalBlocks, false after its two early
\* returns.
ShouldSpawnBlock(p, hasWon, r2) ==
    /\ ~hasWon
    /\ p.corruptionLevel >= 2
    /\ \/ p.corruptionLevel = 2 /\ p.foodEatenSinceLastBlock >= 5
       \/ p.corruptionLevel = 3 /\ p.foodEatenSinceLastBlock >= 2 + r2

\* A mutant of UpdateEnvironmentalBlocks: the count of objectives is not
\* restarted when an obstacle is added.
UpdateEnvironmentalBlocksKeepingCount(p, hasWon, r2, pick) ==
    IF ShouldSpawnBlock(p, hasWon, r2) /\ pick # NoCell
    THEN [p EXCEPT !.environmentalBlocks = Append(@, pick)]
    ELSE p

\* updateEnvironmentalBlocks: r2 is Math.floor(Math.random() * 2); pick is
\* what generateBlockPosition returns, a valid cell or NoCell after 50 misses.
UpdateEnvironmentalBlocks(p, hasWon, r2, pick) ==
    IF ShouldSpawnBlock(p, hasWon, r2) /\ pick # NoCell
    THEN [p EXCEPT !.environmentalBlocks = Append(@, pick),
                   !.foodEatenSinceLastBlock = 0]
    ELSE p

\* getFakeFoods: extras are the random decoys added at level 3.
GetFakeFoods(p, extras) ==
    (IF p.fakeFood.active /\ p.fakeFood.position # NoCell
     THEN <<p.fakeFood.position>> ELSE <<>>)
    \o (IF p.corruptionLevel >= 3 THEN extras ELSE <<>>)

\* The outcomes of the level-3 loop of getFakeFoods: none, one or two cells.
ExtraChoices ==
    {<<>>} \cup {<<c>> : c \in {e \in ExtraCells : MaxExtras >= 1}}
           \cup {<<c, d>> : c \in ExtraCells, d \in {e \in ExtraCells : MaxExtras >= 2}}

\* A mutant of OnFakeFoodApproached: the decoy that is approached is
\* deactivated.
OnFakeFoodApproachedDeactivating(p, position) ==
    IF p.fakeFood.active /\ p.fakeFood.position = position
    THEN [p EXCEPT !.fakeFood = FreshPunishment.fakeFood]
    ELSE p

\* onFakeFoodApproached: it picks a comment and writes nothing.
OnFakeFoodApproached(p, position) == p

\* onRealFoodEaten
OnRealFoodEaten(p, now) ==
    [p EXCEPT !.lastFoodEaten = now,
              !.foodEatenSinceLastBlock = @ + 1]

(***************************************************************************)
(* SnakeBehaviorTracker and SnakeCommentaryGenerator                       *)
(***************************************************************************)
Archetypes ==
    {"cautious", "greedy", "erratic", "predictable", "improving",
     "wall_hugger", "spiral_addict"}

\* A mutant of ClassifyBehavior: the predictable rule is tested before the
\* wall-hugger rule.
ClassifyBehaviorPredictableFirst(m) ==
    IF m.totalSessions < 2 THEN "cautious"
    ELSE IF m.patternRepetition > 400 /\ MaxTurnBias(m) > 400 THEN "predictable"
    ELSE IF m.wallHuggingFrequency > 600 THEN "wall_hugger"
    ELSE IF m.spiralBehaviorDetected THEN "spiral_addict"
    ELSE IF m.improvementTrend > 300 /\ m.averageScore > 20000 THEN "improving"
    ELSE IF m.lengthBasedGreedThreshold > 500
            /\ m.totalDeaths * 10 > m.totalSessions * 7 THEN "greedy"
    ELSE IF m.averageReactionTime > 800 /\ m.comfortZoneSize < 300 THEN "erratic"
    ELSE "cautious"

\* classifyBehavior, on the metrics calculateMetrics returns (ratios in
\* thousandths, averageScore in thousandths of a point, averageReactionTime
\* in ms).
ClassifyBehavior(m) ==
    IF m.totalSessions < 2 THEN "cautious"
    ELSE IF m.wallHuggingFrequency > 600 THEN "wall_hugger"
    ELSE IF m.spiralBehaviorDetected THEN "spiral_addict"
    ELSE IF m.improvementTrend > 300 /\ m.averageScore > 20000 THEN "improving"
    ELSE IF m.lengthBasedGreedThreshold > 500
            /\ m.totalDeaths * 10 > m.totalSessions * 7 THEN "greedy"
    ELSE IF m.averageReactionTime > 800 /\ m.comfortZoneSize < 300 THEN "erratic"
    ELSE IF m.patternRepetition > 400 /\ MaxTurnBias(m) > 400 THEN "predictable"
    ELSE "cautious"

\* The pool getStartCommentary picks from for an archetype.
StartPool(behaviorType) ==
    CASE behaviorType = "cautious" -> "START_CAUTIOUS"
      [] behaviorType = "greedy" -> "START_GREEDY"
      [] behaviorType = "erratic" -> "START_ERRATIC"
      [] behaviorType = "predictable" -> "START_PREDICTABLE"
      [] behaviorType = "improving" -> "START_IMPROVING"
      [] behaviorType = "wall_hugger" -> "START_WALL_HUGGER"
      [] behaviorType = "spiral_addict" -> "START_SPIRAL_ADDICT"

\* A mutant of GetStartCommentary: the new-session test is missing.
GetStartCommentaryNoNewSession(behaviorType, m) == StartPool(behaviorType)

\* getStartCommentary
GetStartCommentary(behaviorType, m) ==
    IF m.totalSessions = 0 THEN "NEW_SESSION" ELSE StartPool(behaviorType)

\* calculateTrend, in thousandths, on the scores of the session window.
CalculateTrend(values) ==
    IF Len(values) < 4 THEN 0
    ELSE LET n == Len(values)
             recent == SubSeq(values, n - 2, n)
             older == SubSeq(values, Max(1, n - 5), n - 3)
             \* averages times 3 * Len(older), to stay in the integers
             r == SumSeq(recent) * Len(older)
             o == SumSeq(older) * 3
             d == Max(o, 10 * 3 * Len(older))
             q == ((r - o) * 1000) \div d
         IN  Max(-1000, Min(1000, q))

\* What calculateMetrics derives from the recorded moves.  The tracker's move
\* lists are not kept in the state: the metrics computed from persistentData
\* are drawn from PersistentViews when a move is recorded, those computed
\* from the moves of the completed sessions are drawn from WindowViews when
\* a session with moves is completed.  (On the 20 x 20 board a comfort zone
\* above 0.6 needs an average wall distance above 6.)
ZeroPersistent ==
    [wallHuggingFrequency |-> 0,
     turnBias |-> [left |-> 0, right |-> 0, up |-> 0, down |-> 0],
     spiralPatterns |-> 0]

PersistentViews ==
    {[wallHuggingFrequency |-> 0,
      turnBias |-> [left |-> 0, right |-> 1000, up |-> 0, down |-> 0],
      spiralPatterns |-> 0],
     [wallHuggingFrequency |-> 900,
      turnBias |-> [left |-> 250, right |-> 250, up |-> 250, down |-> 250],
      spiralPatterns |-> 1]}

ZeroWindow ==
    [averageReactionTime |-> 0, lengthBasedGreedThreshold |-> 0,
     patternRepetition |-> 0, comfortZoneSize |-> 0, riskTolerance |-> 0]

WindowViews ==
    {[averageReactionTime |-> 300, lengthBasedGreedThreshold |-> 0,
      patternRepetition |-> 0, comfortZoneSize |-> 800, riskTolerance |-> 100],
     [averageReactionTime |-> 900, lengthBasedGreedThreshold |-> 600,
      patternRepetition |-> 500, comfortZoneSize |-> 200, riskTolerance |-> 1000]}

\* The tracker of a fresh analyzer.
FreshTracker ==
    [sessions |-> <<>>,
     hasSession |-> FALSE,
     sessionMoves |-> 0,
     sessionCounter |-> 0,
     persistent |-> ZeroPersistent,
     window |-> ZeroWindow]

\* A mutant of StartSession: a session still active is completed first.
StartSessionRecording(tr) ==
    [tr EXCEPT !.sessionCounter = @ + 1,
               !.hasSession = TRUE,
               !.sessionMoves = 0,
               !.sessions = IF tr.hasSession
                            THEN Append(@, [score |-> 0, deathCause |-> Null,
                                            moves |-> tr.sessionMoves])
                            ELSE @]

\* startSession
StartSession(tr) ==
    [tr EXCEPT !.sessionCounter = @ + 1,
               !.hasSession = TRUE,
               !.sessionMoves = 0]

\* recordMove and updateContinuousMetrics: pv is the persistentData after
\* the move.
RecordMove(tr, pv) ==
    IF ~tr.hasSession THEN tr
    ELSE [tr EXCEPT !.sessionMoves = @ + 1, !.persistent = pv]

\* endSession keeping the ten oldest sessions instead of the ten newest.
EndSessionKeepsOldest(tr, score, deathCause, wv) ==
    IF ~tr.hasSession THEN tr
    ELSE LET pushed == Append(tr.sessions,
                              [score |-> score, deathCause |-> deathCause,
                               moves |-> tr.sessionMoves])
         IN  [tr EXCEPT !.sessions = IF Len(pushed) > 10
                                     THEN SubSeq(pushed, 1, 10)
                                     ELSE pushed,
                        !.hasSession = FALSE,
                        !.window = wv]

\* endSession: wv is what the moves of the window amount to afterwards.
EndSession(tr, score, deathCause, wv) ==
    IF ~tr.hasSession THEN tr
    ELSE LET pushed == Append(tr.sessions,
                              [score |-> score, deathCause |-> deathCause,
                               moves |-> tr.sessionMoves])
             kept == IF Len(pushed) > 10
                     THEN SubSeq(pushed, Len(pushed) - 9, Len(pushed))
                     ELSE pushed
         IN  [tr EXCEPT !.sessions = kept,
                        !.hasSession = FALSE,
                        !.window = wv]

\* The window views a completed session list allows: without a recorded
\* move in the last five sessions every move-derived metric is 0.
WindowChoices(tr) ==
    IF tr.sessionMoves > 0 THEN WindowViews
    ELSE IF \E i \in 1 .. Len(tr.sessions) :
                i > Len(tr.sessions) - 4 /\ tr.sessions[i].moves > 0
         THEN {tr.window}
         ELSE {ZeroWindow}

\* calculateMetrics
CalculateMetrics(tr) ==
    LET n == Len(tr.sessions)
        scores == [i \in 1 .. n |-> tr.sessions[i].score]
        best == IF n = 0 THEN 0
                ELSE CHOOSE b \in SeqToSet(scores) : \A c \in SeqToSet(scores) : c <= b
    IN  [wallHuggingFrequency |-> tr.persistent.wallHuggingFrequency,
         turnBias |-> tr.persistent.turnBias,
         spiralBehaviorDetected |-> tr.persistent.spiralPatterns * 10 > n * 3,
         averageReactionTime |-> tr.window.averageReactionTime,
         lengthBasedGreedThreshold |-> tr.window.lengthBasedGreedThreshold,
         patternRepetition |-> tr.window.patternRepetition,
         comfortZoneSize |-> tr.window.comfortZoneSize,
         riskTolerance |-> tr.window.riskTolerance,
         improvementTrend |-> CalculateTrend(scores),
         totalSessions |-> n,
         totalDeaths |-> Cardinality({i \in 1 .. n : tr.sessions[i].deathCause # Null}),
         bestScore |-> Max(best, 0),
         averageScore |-> IF n > 0 THEN (SumSeq(scores) * 1000) \div n ELSE 0]

\* A call of calculateMetrics as a step of the tracker: the tracker it
\* leaves and the value it returns.  Its statements read this.sessions (by
\* slice, flatMap, filter, map and reduce, which build new arrays) and
\* this.persistentData, and assign locals only.
CalculateMetricsClearingCounts(tr) ==
    [tracker |-> [tr EXCEPT !.persistent = ZeroPersistent],
     result |-> CalculateMetrics(tr)]

CalculateMetricsCall(tr) ==
    [tracker |-> tr, result |-> CalculateMetrics(tr)]

\* A call of classifyBehavior: calculateMetrics, then the rules.
ClassifyBehaviorCall(tr) ==
    LET metrics == CalculateMetricsCall(tr)
    IN  [tracker |-> metrics.tracker, result |-> ClassifyBehavior(metrics.result)]

(***************************************************************************)
(* SnakeBehaviorTracker with the moves themselves                          *)
(***************************************************************************)
\* The tracker with the moves of its sessions, of which a move keeps the
\* fields the four range-bound metrics and the cycle detection read.
\* lastDirection "" and lastMoveTime 0 are the initial values of the class.
FreshMoveLog ==
    [op |-> "none",
     hasSession |-> FALSE,
     currentMoves |-> <<>>,
     sessions |-> <<>>,
     lastMoveTime |-> 0,
     lastDirection |-> "",
     directionHistory |-> <<>>,
     totalWallHuggingTime |-> 0,
     totalGameTime |-> 0,
     spiralPatterns |-> 0]

\* startSession
StartSessionFull(td) ==
    [td EXCEPT !.op = "startSession",
               !.hasSession = TRUE,
               !.currentMoves = <<>>,
               !.directionHistory = <<>>]

\* endSession
EndSessionFull(td) ==
    IF ~td.hasSession THEN [td EXCEPT !.op = "endSession"]
    ELSE LET pushed == Append(td.sessions, td.currentMoves)
         IN  [td EXCEPT !.op = "endSession",
                        !.sessions = IF Len(pushed) > 10
                                     THEN SubSeq(pushed, Len(pushed) - 9, Len(pushed))
                                     ELSE pushed,
                        !.currentMoves = <<>>,
                        !.hasSession = FALSE]

\* The index of a direction in ['UP', 'RIGHT', 'DOWN', 'LEFT'].
DirectionIndex(d) ==
    CASE d = "UP" -> 0
      [] d = "RIGHT" -> 1
      [] d = "DOWN" -> 2
      [] d = "LEFT" -> 3

\* calculateTurnAngle
CalculateTurnAngle(lastDir, currentDir) ==
    IF lastDir = "" \/ lastDir = currentDir THEN 0
    ELSE LET diff == Abs(DirectionIndex(currentDir) - DirectionIndex(lastDir))
         IN  (IF diff > 2 THEN 4 - diff ELSE diff) * 90

\* The last n elements of a sequence: slice(-n).
LastN(s, n) == IF Len(s) > n THEN SubSeq(s, Len(s) - n + 1, Len(s)) ELSE s

\* pattern.slice(start) followed by pattern.slice(0, start)
Rotation(pattern, start) ==
    SubSeq(pattern, start + 1, Len(pattern)) \o SubSeq(pattern, 1, start)

\* matchesPattern
MatchesPattern(moves, pattern) ==
    /\ Len(moves) >= Len(pattern)
    /\ \E i \in 0 .. (Len(moves) - Len(pattern)) :
           \A j \in 0 .. (Len(pattern) - 1) : moves[i + j + 1] = pattern[j + 1]

Clockwise == <<"UP", "RIGHT", "DOWN", "LEFT">>
Counterclockwise == <<"UP", "LEFT", "DOWN", "RIGHT">>

\* A mutant of DetectSpiralPattern: only the clockwise cycle is looked for.
DetectSpiralPatternClockwiseOnly(recentMoves) ==
    \E start \in 0 .. 3 : MatchesPattern(recentMoves, Rotation(Clockwise, start))

\* detectSpiralPattern
DetectSpiralPattern(recentMoves) ==
    \E start \in 0 .. 3 :
        \/ MatchesPattern(recentMoves, Rotation(Clockwise, start))
        \/ MatchesPattern(recentMoves, Rotation(Counterclockwise, start))

\* The minimum distance of the head to a wall of a w by h grid.
WallDistance(head, w, h) ==
    Min(Min(head[1], head[2]), Min(w - 1 - head[1], h - 1 - head[2]))

\* recordMove with updateContinuousMetrics at time t.
RecordMoveFull(td, direction, head, w, h, t) ==
    IF ~td.hasSession THEN [td EXCEPT !.op = "recordMove"]
    ELSE LET wallDistance == WallDistance(head, w, h)
             nearWall == wallDistance <= 1
             move == [direction |-> direction,
                      wallDistance |-> wallDistance,
                      nearWall |-> nearWall,
                      turnAngle |-> CalculateTurnAngle(td.lastDirection, direction)]
             timeDelta == IF td.lastMoveTime > 0 THEN t - td.lastMoveTime ELSE 0
             history == LastN(Append(td.directionHistory, direction), 20)
         IN  [td EXCEPT
                 !.op = "recordMove",
                 !.currentMoves = Append(@, move),
                 !.totalWallHuggingTime = IF nearWall THEN @ + timeDelta ELSE @,
                 !.totalGameTime = @ + timeDelta,
                 !.directionHistory = history,
                 !.spiralPatterns =
                     IF Len(history) >= 8 /\ DetectSpiralPattern(LastN(history, 8))
                     THEN @ + 1 ELSE @,
                 !.lastMoveTime = t,
                 !.lastDirection = direction]

\* recentSessions.flatMap(s => s.moves)
RECURSIVE FlatMoves(_)
FlatMoves(sessions) ==
    IF sessions = <<>> THEN <<>> ELSE Head(sessions) \o FlatMoves(Tail(sessions))

\* The characters of a direction, and directions.join('')
Chars(d) ==
    CASE d = "UP" -> <<"U", "P">>
      [] d = "DOWN" -> <<"D", "O", "W", "N">>
      [] d = "LEFT" -> <<"L", "E", "F", "T">>
      [] d = "RIGHT" -> <<"R", "I", "G", "H", "T">>

RECURSIVE Join(_)
Join(directions) ==
    IF directions = <<>> THEN <<>>
    ELSE Chars(Head(directions)) \o Join(Tail(directions))

\* String.prototype.includes
Includes(text, part) ==
    \E i \in 0 .. (Len(text) - Len(part)) :
        SubSeq(text, i + 1, i + Len(part)) = part

\* findRepeatingPatterns: the number of patterns it returns.
FindRepeatingPatterns(directions) ==
    Cardinality({i \in 0 .. (Len(directions) - 4) :
        Includes(Join(SubSeq(directions, i + 4, Len(directions))),
                 Join(SubSeq(directions, i + 1, i + 3)))})

\* calculateComfortZoneSize, in thousandths
CalculateComfortZoneSize(moves) ==
    IF Len(moves) = 0 THEN 0
    ELSE Min((SumSeq([i \in 1 .. Len(moves) |-> moves[i].wallDistance]) * 1000)
                 \div (Len(moves) * 10),
             1000)

\* A move calculateRiskTolerance counts.
RiskyMove(move) ==
    move.wallDistance <= 2 \/ (move.nearWall /\ move.turnAngle >= 90)

\* A mutant of CalculateRiskTolerance: a move that meets both conditions is
\* counted twice.
CalculateRiskToleranceTwice(moves) ==
    IF Len(moves) = 0 THEN 0
    ELSE ((Cardinality({i \in 1 .. Len(moves) : moves[i].wallDistance <= 2})
           + Cardinality({i \in 1 .. Len(moves) :
                             moves[i].nearWall /\ moves[i].turnAngle >= 90}))
          * 1000) \div Len(moves)

\* calculateRiskTolerance, in thousandths
CalculateRiskTolerance(moves) ==
    IF Len(moves) = 0 THEN 0
    ELSE (Cardinality({i \in 1 .. Len(moves) : RiskyMove(moves[i])}) * 1000)
             \div Len(moves)

\* A mutant of AllMoves: the moves of the session in progress are read too.
AllMovesWithCurrent(td) == FlatMoves(LastN(td.sessions, 5)) \o td.currentMoves

\* allMoves of calculateMetrics: the moves of this.sessions.slice(-5), the
\* completed sessions.
AllMoves(td) == FlatMoves(LastN(td.sessions, 5))

\* calculateMetrics: the four metrics said to lie between 0 and 1, in
\* thousandths.
CalculateMetricsFull(td) ==
    LET allMoves == AllMoves(td)
        directions == [i \in 1 .. Len(allMoves) |-> allMoves[i].direction]
    IN  [wallHuggingFrequency |->
             IF td.totalGameTime > 0
             THEN (td.totalWallHuggingTime * 1000) \div td.totalGameTime ELSE 0,
         patternRepetition |->
             IF Len(directions) > 0
             THEN (FindRepeatingPatterns(directions) * 1000) \div Len(directions)
             ELSE 0,
         comfortZoneSize |-> CalculateComfortZoneSize(allMoves),
         riskTolerance |-> CalculateRiskTolerance(allMoves)]

(***************************************************************************)
(* SnakeBehaviorTracker.calculateGreedThreshold                            *)
(***************************************************************************)
\* The tracker with what calculateGreedThreshold reads: the start and end
\* times of the sessions and the snake lengths of their moves.
FreshGreedLog ==
    [op |-> "none", hasSession |-> FALSE, startTime |-> 0, lengths |-> <<>>,
     sessions |-> <<>>]

\* startSession at time t
GreedStartSession(g, t) ==
    [g EXCEPT !.op = "startSession", !.hasSession = TRUE, !.startTime = t,
              !.lengths = <<>>]

\* recordMove: the move keeps snakeLength
GreedRecordMove(g, snakeLength) ==
    IF ~g.hasSession THEN [g EXCEPT !.op = "recordMove"]
    ELSE [g EXCEPT !.op = "recordMove", !.lengths = Append(@, snakeLength)]

\* endSession at time t
GreedEndSession(g, t) ==
    IF ~g.hasSession THEN [g EXCEPT !.op = "endSession"]
    ELSE [g EXCEPT !.op = "endSession",
                   !.hasSession = FALSE,
                   !.sessions = LastN(Append(@, [startTime |-> g.startTime,
                                                  endTime |-> t,
                                                  lengths |-> g.lengths]), 10)]

\* The sessions the loop of calculateGreedThreshold adds a ratio for:
\* session.endTime && session.moves.length > 0.
ValidSessions(sessions) ==
    {i \in 1 .. Len(sessions) :
        sessions[i].endTime # 0 /\ Len(sessions[i].lengths) > 0}

\* maxLength / (survivalTime / 1000) in thousandths; the division of a
\* positive length by 0 is Infinity.
LengthTimeRatio(session) ==
    LET maxLength == CHOOSE l \in SeqToSet(session.lengths) :
                         \A k \in SeqToSet(session.lengths) : k <= l
        survivalTime == session.endTime - session.startTime
    IN  IF survivalTime = 0
        THEN [infinite |-> TRUE, value |-> 0]
        ELSE [infinite |-> FALSE, value |-> (maxLength * 1000000) \div survivalTime]

\* calculateGreedThreshold: infinite when a ratio of the sum is Infinity.
CalculateGreedThreshold(sessions) ==
    LET valid == ValidSessions(sessions)
        ratios == [i \in valid |-> LengthTimeRatio(sessions[i])]
        RECURSIVE Total(_)
        Total(S) == IF S = {} THEN 0
                    ELSE LET i == CHOOSE j \in S : TRUE
                         IN  ratios[i].value + Total(S \ {i})
    IN  IF valid = {} THEN [infinite |-> FALSE, value |-> 0]
        ELSE [infinite |-> \E i \in valid : ratios[i].infinite,
              value |-> Total(valid) \div Cardinality(valid)]

(***************************************************************************)
(* SnakeAIAnalyzer                                                         *)
(***************************************************************************)
Event(message, source, priority) ==
    [message |-> message, source |-> source, priority |-> priority]

\* getMidGameTaunt: the three fixed texts by their condition, "TAUNT" for a
\* text drawn from the pool of six.
GetMidGameTaunt(behaviorType, m) ==
    IF behaviorType = "cautious" THEN "TAUNT_CAUTIOUS"
    ELSE IF behaviorType = "predictable" THEN "TAUNT_PREDICTABLE"
    ELSE IF m.comfortZoneSize > 700 THEN "TAUNT_COMFORT"
    ELSE "TAUNT"

\* A mutant of ResetPunishment: the reset keeps the corruption level.
ResetKeepsLevel(p) == [FreshPunishment EXCEPT !.corruptionLevel = p.corruptionLevel]

\* A mutant of ResetPunishment: the reset keeps the obstacles.
ResetKeepsBlocks(p) ==
    [FreshPunishment EXCEPT !.environmentalBlocks = p.environmentalBlocks]

\* A mutant of ResetPunishment: the reset keeps the primary decoy.
ResetKeepsDecoy(p) == [FreshPunishment EXCEPT !.fakeFood = p.fakeFood]

\* SnakePunishmentSystem.reset
ResetPunishment(p) == FreshPunishment

\* The SnakeAIState a handler hands to the screen, without its metrics,
\* environmentalEffects, commentaryEvents and game-over analysis.
AIState(behaviorType, isActive, level, speed, fakeFoods, blocks, isGameOver) ==
    [present |-> TRUE,
     behaviorType |-> behaviorType,
     isActive |-> isActive,
     corruptionLevel |-> level,
     speedMultiplier |-> speed,
     fakeFoods |-> fakeFoods,
     environmentalBlocks |-> blocks,
     isGameOver |-> isGameOver]

\* useState<SnakeAIState | null>(null)
NullAIState ==
    [AIState("cautious", FALSE, 0, SpeedOne, <<>>, <<>>, FALSE)
        EXCEPT !.present = FALSE]

\* What onGameStart returns.
StartState(behaviorType) ==
    AIState(behaviorType, TRUE, 0, SpeedOne, <<>>, <<>>, FALSE)

\* A mutant of GameEndState: the snapshot of a death reports level 0.
GameEndStateLevelZero(behaviorType, level) ==
    AIState(behaviorType, FALSE, 0, SpeedOne, <<>>, <<>>, TRUE)

\* What onGameEnd returns for an active session.
GameEndState(behaviorType, level) ==
    AIState(behaviorType, FALSE, level, SpeedOne, <<>>, <<>>, TRUE)

\* getDefaultState
DefaultState ==
    AIState("cautious", FALSE, 0, SpeedOne, <<>>, <<>>, FALSE)

\* getCurrentAIState
CurrentAIState(an, tr, p, extras) ==
    AIState(ClassifyBehavior(CalculateMetrics(tr)), an.currentSessionId # 0,
            p.corruptionLevel, p.speedMultiplier, GetFakeFoods(p, extras),
            p.environmentalBlocks, FALSE)

\* The literal handleReset builds.
ResetAIState(behaviorType) ==
    AIState(behaviorType, FALSE, 0, SpeedOne, <<>>, <<>>, FALSE)

\* A fresh analyzer; currentSessionId 0 stands for null, an id is the
\* session counter it was made from.
FreshAnalyzer ==
    [currentSessionId |-> 0,
     lastScore |-> 0,
     consecutiveFailures |-> 0,
     gameStartTime |-> 0,
     commentaryEvents |-> <<>>]

\* evaluateCorruption: r holds the outcomes of the random draws.  The
\* trigger is the level entered, 0 for null.
EvaluateCorruption(p, m, snake, food, snakeLength, timeAlive, hasWon, t, r) ==
    LET previousLevel == p.corruptionLevel
        level == UpdateCorruptionLevel(previousLevel, timeAlive, snakeLength)
        p1 == [p EXCEPT !.gameStartTime = IF @ = 0 THEN t ELSE @,
                        !.corruptionLevel = level]
    IN  Then(UpdateFakeFood(p1, m, food, t, r.r25), LAMBDA p2 :
        Then(UpdateSpeedCorruption(p2, m, t, timeAlive, r.rFluct), LAMBDA p3 :
        Then(UpdateFoodBias(p3, m), LAMBDA p4 :
        Then(GenerateMidGameCommentary(p4, m, t, r.cooldown), LAMBDA p5 :
        Then(UpdateEnvironmentalBlocks(p5, hasWon, r.r2, r.pick), LAMBDA p6 :
            [state |-> p6,
             fakeFoods |-> GetFakeFoods(p6, r.extras),
             environmentalBlocks |-> p6.environmentalBlocks,
             newSpeedMultiplier |-> p6.speedMultiplier,
             corruptionTriggered |->
                 IF level > previousLevel THEN level ELSE 0])))))

\* A mutant of DefaultUpdateResult: the result carries the multiplier the
\* punishment system holds.
DefaultUpdateResultStale(an, p) ==
    [analyzer |-> an, punishment |-> p, speedMultiplier |-> p.speedMultiplier,
     fakeFoods |-> <<>>, environmentalBlocks |-> <<>>, hasWon |-> FALSE,
     commentaryEvents |-> <<>>, corruptionTriggered |-> 0]

\* getDefaultUpdateResult, with the analyzer and the punishment state the
\* early return leaves as they are.
DefaultUpdateResult(an, p) ==
    [analyzer |-> an, punishment |-> p, speedMultiplier |-> SpeedOne,
     fakeFoods |-> <<>>, environmentalBlocks |-> <<>>, hasWon |-> FALSE,
     commentaryEvents |-> <<>>, corruptionTriggered |-> 0]

\* onGameUpdate at time t.
OnGameUpdate(an, tr, p, snake, food, snakeLength, t, r) ==
    IF an.currentSessionId = 0
    THEN DefaultUpdateResult(an, p)
    ELSE LET timeAlive == t - an.gameStartTime
             score == (snakeLength - 1) * 10
             hasWon == score >= 500
             e0 == IF hasWon THEN <<Event("WIN", "system", "high")>> ELSE <<>>
         IN  Then(CalculateMetrics(tr), LAMBDA m :
             Then(EvaluateCorruption(p, m, snake, food, snakeLength, timeAlive,
                                     hasWon, t, r), LAMBDA c :
             LET
             e1 == IF c.corruptionTriggered # 0
                   THEN Append(e0, Event("CORRUPTION", "corruption", "high")) ELSE e0
             e2 == IF c.newSpeedMultiplier > 72000
                   THEN Append(e1, Event("SPEED", "corruption", "normal")) ELSE e1
             e3 == IF Len(c.environmentalBlocks) > 0
                   THEN Append(e2, Event("ENVIRONMENT", "corruption", "normal")) ELSE e2
             e4 == IF r.taunt
                   THEN Append(e3, Event(GetMidGameTaunt(ClassifyBehavior(m), m),
                                         "mid-game", "low"))
                   ELSE e3
             e5 == IF Len(c.fakeFoods) > 0 /\ r.fakeFoodComment
                   THEN Append(e4, Event("FAKE_FOOD", "corruption", "normal")) ELSE e4
         IN  [analyzer |-> [an EXCEPT !.commentaryEvents = e5],
              punishment |-> c.state,
              speedMultiplier |-> c.newSpeedMultiplier,
              fakeFoods |-> c.fakeFoods,
              environmentalBlocks |-> c.environmentalBlocks,
              hasWon |-> hasWon,
              commentaryEvents |-> e5,
              corruptionTriggered |-> c.corruptionTriggered]))

\* onMove: the tracker after it.
OnMove(an, tr, pv) ==
    IF an.currentSessionId = 0 THEN tr ELSE RecordMove(tr, pv)

\* A mutant of FailuresAfter: a winning end clears the counter.
FailuresAfterWinClears(an, score, hasWon) ==
    IF hasWon THEN 0
    ELSE IF score < 30
         THEN IF an.consecutiveFailures + 1 >= 3 THEN 0 ELSE an.consecutiveFailures + 1
         ELSE 0

\* The recommendation of the game-over analysis of onGameEnd: the
\* repeated-failure commentary, the fixed advice, or none.
Recommendation(an, score, hasWon) ==
    IF hasWon THEN "none"
    ELSE IF score < 30
         THEN IF an.consecutiveFailures + 1 >= 3 THEN "repeatedFailure" ELSE "strategy"
         ELSE "none"

\* The consecutive-failure counter after onGameEnd.
FailuresAfter(an, score, hasWon) ==
    IF hasWon THEN an.consecutiveFailures
    ELSE IF score < 30
         THEN IF an.consecutiveFailures + 1 >= 3 THEN 0 ELSE an.consecutiveFailures + 1
         ELSE 0

\* onGameEnd: the analyzer, the tracker and the state handed to the screen;
\* the punishment system is only read.
OnGameEnd(an, tr, p, score, deathCause, hasWon, wv) ==
    IF an.currentSessionId = 0
    THEN [analyzer |-> an, tracker |-> tr, aiState |-> DefaultState]
    ELSE LET tr1 == EndSession(tr, score, deathCause, wv)
             behaviorType == ClassifyBehavior(CalculateMetrics(tr1))
         IN  [analyzer |-> [an EXCEPT !.consecutiveFailures =
                                          FailuresAfter(an, score, hasWon),
                                      !.lastScore = score,
                                      !.currentSessionId = 0],
              tracker |-> tr1,
              aiState |-> GameEndState(behaviorType, p.corruptionLevel)]

(***************************************************************************)
(* SnakeGame                                                               *)
(***************************************************************************)
Centre == <<GridSize \div 2, GridSize \div 2>>

\* A random pick from the candidate set S, as the model draws it: from the
\* cells of RandCells when S has some.
Drawn(S) == IF S \cap RandCells # {} THEN S \cap RandCells ELSE S

\* generateFood: the cells its do-while loop can end on.
GenerateFood(snake) == Drawn(Cells \ SeqToSet(snake))

\* The data of a constructed or reset game, with its food.
FreshData(food) ==
    [snake |-> <<Centre>>,
     food |-> food,
     fakeFoods |-> <<>>,
     environmentalBlocks |-> <<>>,
     direction |-> "RIGHT",
     nextDirection |-> "RIGHT",
     score |-> 0,
     gameState |-> "READY",
     moveCount |-> 0,
     speedMultiplier |-> SpeedOne,
     hasWon |-> FALSE,
     deathCause |-> Null]

Opposite(d) ==
    CASE d = "UP" -> "DOWN"
      [] d = "DOWN" -> "UP"
      [] d = "LEFT" -> "RIGHT"
      [] d = "RIGHT" -> "LEFT"

\* The new head position of update.
NextHead(head, d) ==
    CASE d = "UP" -> <<head[1], head[2] - 1>>
      [] d = "DOWN" -> <<head[1], head[2] + 1>>
      [] d = "LEFT" -> <<head[1] - 1, head[2]>>
      [] d = "RIGHT" -> <<head[1] + 1, head[2]>>

\* The collision tests of update, in their order; Null when the move is made.
Collision(d, head) ==
    IF head[1] < 0 \/ head[1] >= GridSize \/ head[2] < 0 \/ head[2] >= GridSize
    THEN "wall"
    ELSE IF head \in SeqToSet(d.snake) THEN "self"
    ELSE IF head \in SeqToSet(d.environmentalBlocks) THEN "block"
    ELSE Null

\* A mutant of RealFoodHit: a decoy on the cell ends the step before the
\* real food is looked at.
RealFoodHitUnlessDecoy(head, food, decoyHits) == head = food /\ decoyHits = 0

\* The real-food test of update, reached whatever the decoy loop did.
RealFoodHit(head, food, decoyHits) == head = food

\* generateWallAdjacentPosition
WallAdjacentPositions(snake) ==
    LET free == {c \in Cells :
                    /\ \/ c[1] \in {0, 1, GridSize - 2, GridSize - 1}
                       \/ c[2] \in {0, 1, GridSize - 2, GridSize - 1}
                    /\ c \notin SeqToSet(snake)}
    IN  IF free # {} THEN Drawn(free) ELSE RandCells

\* generateBodyAdjacentPosition
BodyAdjacentPositions(snake) ==
    LET free == {c \in Cells :
                    /\ c \notin SeqToSet(snake)
                    /\ \E i \in 2 .. Len(snake) :
                           Abs(c[1] - snake[i][1]) + Abs(c[2] - snake[i][2]) = 1}
    IN  IF free # {} THEN free ELSE RandCells

\* generateBiasedFoodPosition on each normalPosition generateFood can return.
BiasedFoodPositions(p, snake) ==
    GenerateFood(snake)
    \cup (IF p.foodBias.wallBias > 0 THEN WallAdjacentPositions(snake) ELSE {})
    \cup (IF p.foodBias.bodyBias > 0 THEN BodyAdjacentPositions(snake) ELSE {})

(***************************************************************************)
(* BlockBreakerCorruptionSystem and BlockBreakerAIAnalyzer                 *)
(***************************************************************************)
\* A block is the cell <<col, row>> of the block grid it is drawn at (x and
\* y are col * 75 + 55 and row * 25 + 55, so that two blocks are within 35
\* and 10 pixels of each other exactly when their cells are equal).  The
\* opacity of a regenerating block is counted in steps of 0.05.  Not
\* modelled: ballSpeedMultiplier, paddleWidthMultiplier, paddleDrift,
\* bounceAngleBias and the speed spike, which no block list depends on, and
\* the paddle triggers (paddleCamping, repeatedAngles), which stay 0 as long
\* as no paddle_hit event is processed.
BreakerCooldown == 3000
RegenDelay == 500
ReappearDelay == 2000
FullOpacity == 20

\* The state and triggers that reset() rebuilds.
FreshCorruption ==
    [level |-> 0,
     fakeBlocks |-> <<>>,
     regeneratingBlocks |-> <<>>,
     stubbornBlocks |-> <<>>,
     missedBalls |-> 0,
     timePerBlock |-> 0,
     blocksDestroyed |-> 0]

\* The analyzer with its corruption system after construction.  timers are
\* the setTimeout callbacks not yet run, in the order they were scheduled;
\* resets, touched and fired are history: the calls of reset(), whether an
\* event was processed since the last of them, and the callback run last.
NoTimer == [due |-> 0, kind |-> "none", pos |-> <<0, 0>>, epoch |-> 0]

FreshBreaker ==
    [op |-> "new",
     corruption |-> FreshCorruption,
     lastBlockDestroyTime |-> 0,
     lastCommentaryTime |-> 0,
     timers |-> <<>>,
     resets |-> 0,
     touched |-> FALSE,
     fired |-> NoTimer]

\* reset() with every pending callback cancelled.
BreakerResetCancelling(b) ==
    [b EXCEPT !.corruption = FreshCorruption,
              !.timers = <<>>,
              !.resets = @ + 1,
              !.touched = FALSE]

\* reset(): a new state and new triggers; lastBlockDestroyTime and the
\* callbacks already scheduled are left alone.
BreakerReset(b) ==
    [b EXCEPT !.corruption = FreshCorruption,
              !.resets = @ + 1,
              !.touched = FALSE]

\* massRegenerateBlocks: one callback per drawn position, 500 ms later.
MassRegenerateBlocks(b, t, positions) ==
    [b EXCEPT !.timers = @ \o [i \in 1 .. Len(positions) |->
                                  [due |-> t + RegenDelay, kind |-> "regenerate",
                                   pos |-> positions[i], epoch |-> b.resets]]]

\* evaluateCorruption with applyLevel1/2/3Corruption: at most one level per
\* call.  r holds the positions Math.random() gives to massRegenerateBlocks,
\* generateFakeBlocks and generateStubbornBlocks.
BreakerEvaluateCorruption(b, t, r) ==
    LET c == b.corruption
    IN  IF c.level = 0 /\ c.blocksDestroyed >= 5
        THEN [b EXCEPT !.corruption.level = 1]
        ELSE IF c.level = 1 /\ (c.timePerBlock > 8000 \/ c.blocksDestroyed >= 15)
        THEN MassRegenerateBlocks([b EXCEPT !.corruption.level = 2], t, r.regen)
        ELSE IF c.level = 2 /\ (c.missedBalls >= 4 \/ c.blocksDestroyed >= 25)
        THEN [b EXCEPT !.corruption.level = 3,
                       !.corruption.fakeBlocks = @ \o r.fake,
                       !.corruption.stubbornBlocks = @ \o r.stubborn]
        ELSE b

\* onBlockDestroyed
OnBlockDestroyed(b, t, r) ==
    LET counted == [b EXCEPT !.corruption.blocksDestroyed = @ + 1,
                             !.corruption.timePerBlock =
                                 IF b.lastBlockDestroyTime > 0
                                 THEN t - b.lastBlockDestroyTime ELSE @,
                             !.lastBlockDestroyTime = t]
    IN  IF counted.corruption.blocksDestroyed >= 5
        THEN BreakerEvaluateCorruption(counted, t, r)
        ELSE counted

\* update(): the opacities rise by 0.05 and full blocks leave the list.
RECURSIVE FadeIn(_)
FadeIn(blocks) ==
    IF blocks = <<>> THEN <<>>
    ELSE LET block == Head(blocks)
             opacity == Min(FullOpacity, block.opacity + 1)
         IN  (IF opacity < FullOpacity
              THEN <<[block EXCEPT !.opacity = opacity]>> ELSE <<>>)
             \o FadeIn(Tail(blocks))

BreakerUpdate(b) ==
    [b EXCEPT !.corruption.regeneratingBlocks = FadeIn(@)]

\* addRegeneratingBlock
AddRegeneratingBlock(b, pos) ==
    [b EXCEPT !.corruption.regeneratingBlocks = Append(@, [pos |-> pos, opacity |-> 0])]

\* removeFakeBlock: the first fake block at the position, if any.
RemoveFakeBlock(blocks, pos) ==
    IF \E i \in 1 .. Len(blocks) : blocks[i] = pos
    THEN LET index == CHOOSE i \in 1 .. Len(blocks) :
                          /\ blocks[i] = pos
                          /\ \A j \in 1 .. (i - 1) : blocks[j] # pos
         IN  SubSeq(blocks, 1, index - 1) \o SubSeq(blocks, index + 1, Len(blocks))
    ELSE blocks

\* initializeGame
InitializeGame(b, t) ==
    [BreakerReset(b) EXCEPT !.op = "initializeGame", !.lastCommentaryTime = t]

\* resetCorruption
ResetCorruption(b) ==
    [BreakerReset(b) EXCEPT !.op = "resetCorruption"]

\* processGameEvent for ball_missed, block_hit and game_end; improve is
\* metrics.shouldCommentOnImprovement of the behaviour tracker, which
\* handleGameEnd sets on a new best score and every processGameEvent clears.
ProcessGameEvent(b, type, t, r, improve) ==
    LET cooled == t - b.lastCommentaryTime >= BreakerCooldown
        said(x) == [x EXCEPT !.lastCommentaryTime = t]
        handled ==
            IF ~cooled THEN b
            ELSE IF type = "ball_missed"
            THEN said([b EXCEPT !.corruption.missedBalls = @ + 1])
            ELSE IF type = "block_hit"
            THEN LET destroyed == OnBlockDestroyed(b, t, r)
                     checked == BreakerEvaluateCorruption(destroyed, t, r)
                 IN  IF checked.corruption.level # destroyed.corruption.level
                     THEN said(checked) ELSE checked
            ELSE IF type = "game_end"
            THEN said(BreakerReset(b))
            ELSE b
        commented ==
            IF improve /\ t - handled.lastCommentaryTime >= BreakerCooldown
            THEN said(handled) ELSE handled
    IN  [BreakerUpdate(commented) EXCEPT !.op = type,
                                         !.touched = commented.resets = b.resets]

\* onFakeBlockHit: at level 3 the removed block is scheduled to reappear.
OnFakeBlockHit(b, pos, t) ==
    LET blocks == b.corruption.fakeBlocks
        wasRemoved == \E i \in 1 .. Len(blocks) : blocks[i] = pos
        removed == [b EXCEPT !.corruption.fakeBlocks = RemoveFakeBlock(@, pos),
                             !.op = "onFakeBlockHit",
                             !.touched = TRUE]
        said == IF t - b.lastCommentaryTime >= BreakerCooldown
                THEN [removed EXCEPT !.lastCommentaryTime = t] ELSE removed
    IN  IF ~wasRemoved THEN [b EXCEPT !.op = "onFakeBlockHit", !.touched = TRUE]
        ELSE IF b.corruption.level >= 3
        THEN [said EXCEPT !.timers = Append(@, [due |-> t + ReappearDelay,
                                                kind |-> "reappear",
                                                pos |-> pos,
                                                epoch |-> b.resets])]
        ELSE said

\* The callback that runs next: the one due first, the one scheduled first
\* among those due together.
NextTimer(timers) ==
    CHOOSE i \in 1 .. Len(timers) :
        \A j \in 1 .. Len(timers) :
            \/ timers[i].due < timers[j].due
            \/ timers[i].due = timers[j].due /\ i <= j

\* A setTimeout callback runs: both kinds push a block of opacity 0 onto
\* the regeneratingBlocks of the state the system has then.
RunTimer(b) ==
    LET i == NextTimer(b.timers)
        added == AddRegeneratingBlock(b, b.timers[i].pos)
    IN  [added EXCEPT !.op = "timer",
                      !.fired = b.timers[i],
                      !.timers = SubSeq(@, 1, i - 1) \o SubSeq(@, i + 1, Len(@))]

(***************************************************************************)
(* ConsoleBehaviorTracker and HttpMemoryStore                              *)
(***************************************************************************)
\* The ledger (GlobalBehaviorData) without its timestamps and the avoidance
\* days computed from them.  recentSessions keeps, for each session, the
\* games launched in it.
LedgerGames == {"snake", "pacman"}

CreateEmptyData ==
    [gameLaunchCounts |-> [g \in LedgerGames |-> 0],
     lastPlayedGame |-> Null,
     consecutiveReplays |-> [g \in LedgerGames |-> 0],
     currentStreak |-> [gameId |-> Null, count |-> 0],
     totalSessions |-> 0,
     snakeFailStreaks |-> 0,
     snakeLastScore |-> 0,
     snakeBestScore |-> 0,
     recentSessions |-> <<>>,
     isFirstTime |-> TRUE]

\* The tracker after construction.  requests are the save() calls whose
\* fetch has not settled, each with the body it was sent with; stored is
\* what the server holds.  History: issued, failed and unhandled count the
\* requests sent, the requests that failed and the rejections that reached
\* no handler; lastFailed is the body of the request that failed last; a
\* request carries the failures seen when it was sent (after), and
\* settledAfter is that number for the request that settled last.
FreshLedger ==
    [op |-> "new",
     data |-> CreateEmptyData,
     hasSession |-> FALSE,
     gameLaunches |-> <<>>,
     sessionCounter |-> 0,
     requests |-> <<>>,
     stored |-> CreateEmptyData,
     issued |-> 0,
     failed |-> 0,
     unhandled |-> 0,
     lastFailed |-> CreateEmptyData,
     settledAfter |-> 0]

\* What the fetch of a save() can come to: a response with ok and no
\* success: false, a rejected fetch, a status outside 200-299, a body with
\* success: false.
Responses == {"ok", "network_error", "http_error", "success_false"}

\* HttpMemoryStore.save after its fetch has settled: the promise it returns.
HttpSaveSettled(response) ==
    IF response = "ok" THEN "fulfilled" ELSE "rejected"

\* saveData passing the rejection of save on to its caller.
SaveDataSettledRethrowing(saved) == saved

\* saveData after the await: the catch logs the error and the promise of
\* saveData is fulfilled either way.
SaveDataSettled(saved) == "fulfilled"

\* saveData up to its await: save(this.data) builds the body with
\* JSON.stringify and calls fetch before it returns.
SaveData(l) ==
    [l EXCEPT !.requests = Append(@, [body |-> l.data, after |-> l.failed]),
              !.issued = @ + 1]

\* startSession
LedgerStartSession(l) ==
    [l EXCEPT !.op = "startSession",
              !.sessionCounter = @ + 1,
              !.hasSession = TRUE,
              !.gameLaunches = <<>>,
              !.data.totalSessions = @ + 1,
              !.data.isFirstTime = FALSE]

\* recordGameLaunch
RecordGameLaunch(l, gameId) ==
    IF ~l.hasSession THEN [l EXCEPT !.op = "recordGameLaunch"]
    ELSE LET d == l.data
             same == d.currentStreak.gameId = gameId
             count == IF same THEN d.currentStreak.count + 1 ELSE 1
             cleared == IF ~same /\ d.currentStreak.gameId # Null
                        THEN [d.consecutiveReplays EXCEPT ![d.currentStreak.gameId] = 0]
                        ELSE d.consecutiveReplays
             recorded ==
                 [d EXCEPT !.gameLaunchCounts[gameId] = @ + 1,
                           !.lastPlayedGame = gameId,
                           !.currentStreak = [gameId |-> gameId, count |-> count],
                           !.consecutiveReplays = [cleared EXCEPT ![gameId] = count]]
         IN  SaveData([l EXCEPT !.op = "recordGameLaunch",
                                !.gameLaunches = Append(@, gameId),
                                !.data = recorded])

\* recordSnakeGameEnd
RecordSnakeGameEnd(l, score, wasFailure) ==
    LET d == l.data
        recorded ==
            [d EXCEPT !.snakeLastScore = score,
                      !.snakeBestScore = IF score > @ THEN score ELSE @,
                      !.snakeFailStreaks =
                          IF score > d.snakeBestScore THEN 0
                          ELSE IF wasFailure THEN @ + 1 ELSE 0]
    IN  SaveData([l EXCEPT !.op = "recordSnakeGameEnd", !.data = recorded])

\* endSession
LedgerEndSession(l) ==
    IF ~l.hasSession THEN [l EXCEPT !.op = "endSession"]
    ELSE LET pushed == Append(l.data.recentSessions, l.gameLaunches)
         IN  SaveData([l EXCEPT !.op = "endSession",
                                !.data.recentSessions = LastN(pushed, 20),
                                !.hasSession = FALSE,
                                !.gameLaunches = <<>>])

\* The fetch of request i settles with the response, and the continuations
\* of save and saveData run.
RequestSettled(l, i, response) ==
    LET saved == HttpSaveSettled(response)
        done == SaveDataSettled(saved)
        rest == SubSeq(l.requests, 1, i - 1) \o SubSeq(l.requests, i + 1, Len(l.requests))
    IN  [l EXCEPT !.op = IF saved = "fulfilled" THEN "saved" ELSE "saveFailed",
                  !.requests = rest,
                  !.stored = IF response = "ok" THEN l.requests[i].body ELSE @,
                  !.failed = IF saved = "rejected" THEN @ + 1 ELSE @,
                  !.lastFailed = IF saved = "rejected" THEN l.requests[i].body ELSE @,
                  !.settledAfter = l.requests[i].after,
                  !.unhandled = IF done = "rejected" THEN @ + 1 ELSE @]

(***************************************************************************)
(* Snake.tsx: the commentary display                                       *)
(***************************************************************************)
\* const cooldown = 3000 of queueCommentary, and the 3000 of the queue effect.
CommentaryCooldown == 3000

\* The commentary states after the component has mounted and after
\* handleReset.  shownPriority and batch are history: the priority of the
\* message on display ("queued" for one taken from the queue) and the events
\* the component handled last; refreshDue says that the game has made a
\* move the 50 ms interval has not seen yet.
FreshDisplay ==
    [currentCommentary |-> "READY",
     commentaryQueue |-> <<>>,
     isPlayingCommentary |-> FALSE,
     lastCommentaryTime |-> 0,
     shownPriority |-> "none",
     batch |-> <<>>,
     refreshDue |-> FALSE]

\* A mutant of QueueCommentary: the message is displayed whatever the time
\* since the last one.
QueueCommentaryNoCooldown(snap, d, message, priority, t) ==
    [d EXCEPT !.currentCommentary = message,
              !.lastCommentaryTime = t,
              !.shownPriority = priority]

\* queueCommentary at time t: snap holds the states of the render whose
\* closure runs, d the states with the updates already requested.
QueueCommentary(snap, d, message, priority, t) ==
    IF /\ priority = "high" \/ ~snap.isPlayingCommentary
       /\ priority = "high" \/ t - snap.lastCommentaryTime >= CommentaryCooldown
    THEN [d EXCEPT !.currentCommentary = message,
                   !.lastCommentaryTime = t,
                   !.shownPriority = priority]
    ELSE [d EXCEPT !.commentaryQueue = Append(@, message)]

\* The forEach of the events effect: every call runs in the same closure.
RECURSIVE QueueAll(_, _, _, _)
QueueAll(snap, d, events, t) ==
    IF events = <<>> THEN d
    ELSE QueueAll(snap,
                  QueueCommentary(snap, d, Head(events).message,
                                  Head(events).priority, t),
                  Tail(events), t)

\* The queue effect on the states d of its render.
ProcessQueue(d, t) ==
    IF /\ ~d.isPlayingCommentary
       /\ Len(d.commentaryQueue) > 0
       /\ t - d.lastCommentaryTime >= CommentaryCooldown
    THEN [d EXCEPT !.commentaryQueue = Tail(@),
                   !.currentCommentary = Head(d.commentaryQueue),
                   !.lastCommentaryTime = t,
                   !.shownPriority = "queued"]
    ELSE d

\* The dependencies of the queue effect differ between two renders.
QueueDepsChanged(d, e) ==
    \/ d.commentaryQueue # e.commentaryQueue
    \/ d.lastCommentaryTime # e.lastCommentaryTime

\* setAIState with new commentaryEvents: the events effect of the next
\* render, then the queue effect of the render after it.
ShowEvents(d, events, t) ==
    LET d1 == [QueueAll(d, d, events, t) EXCEPT !.batch = events,
                                                !.refreshDue = FALSE]
    IN  IF QueueDepsChanged(d, d1) THEN ProcessQueue(d1, t) ELSE d1

\* handleStart: queueCommentary on the first event in the handler, then
\* both effects of the render that sees the new aiState.
ShowStart(d, events, t) ==
    LET d1 == IF Len(events) > 0
              THEN QueueCommentary(d, d, events[1].message, events[1].priority, t)
              ELSE d
        d2 == IF QueueDepsChanged(d, d1) THEN ProcessQueue(d1, t) ELSE d1
        d3 == [QueueAll(d1, d2, events, t) EXCEPT !.batch = events,
                                                  !.refreshDue = FALSE]
    IN  IF QueueDepsChanged(d1, d3) THEN ProcessQueue(d3, t) ELSE d3

(***************************************************************************)
(* The state                                                               *)
(***************************************************************************)
VARIABLES
    now,         \* Date.now()
    data,        \* SnakeGame.data
    analyzer,    \* the fields of SnakeAIAnalyzer
    punishment,  \* punishmentState and the fields of SnakePunishmentSystem
    tracker,     \* SnakeBehaviorTracker
    ui,          \* Snake.tsx: the gameData and aiState of the component
    hist,        \* what the last handler did (history)
    played,      \* the moves made since the page was loaded (history)
    esc,         \* input and output of one escalation evaluation
    cls,         \* input and output of one classification
    call,        \* the last call of a hook or function on its own, with its result
    disp,        \* Snake.tsx: the commentary states of the component
    breaker,     \* BlockBreakerAIAnalyzer with its corruption system and timers
    ledger       \* ConsoleBehaviorTracker with the requests of its memory store

vars == <<now, data, analyzer, punishment, tracker, ui, hist, played, esc, cls, call, disp,
          breaker, ledger>>

\* No handler has run, or the last one was not a game update.
NoHist(op) ==
    [op |-> op, prevLevel |-> 0, triggered |-> 0, moved |-> FALSE,
     decoyHits |-> 0, primaryHit |-> FALSE, headOnFood |-> FALSE]

NoEsc == [level |-> 0, timeAlive |-> 0, snakeLength |-> 1, out |-> 0, done |-> FALSE]
NoCls == [m |-> CalculateMetrics(FreshTracker), out |-> "cautious", done |-> FALSE]

\* No hook has been called on its own.
NoCall ==
    [op |-> "none", hadSession |-> FALSE, prevLevel |-> 0,
     speedMultiplier |-> SpeedOne, fakeFoods |-> <<>>,
     environmentalBlocks |-> <<>>, commentaryEvents |-> <<>>,
     aiState |-> NullAIState]

\* Date.now() when the component mounts and when a session starts.
StartInstant == 100 * 1000

\* The state after the component has mounted.
Init ==
    /\ now = StartInstant
    /\ played = 0
    /\ \E food \in GenerateFood(<<Centre>>) : data = FreshData(food)
    /\ analyzer = FreshAnalyzer
    /\ punishment = FreshPunishment
    /\ tracker = FreshTracker
    /\ ui = [gameData |-> [moveCount |-> 0, gameState |-> "READY"],
             aiState |-> NullAIState]
    /\ hist = NoHist("init")
    /\ esc = NoEsc
    /\ cls = NoCls
    /\ call = NoCall
    /\ disp = FreshDisplay
    /\ breaker = FreshBreaker
    /\ ledger = FreshLedger

\* handleStart with onGameStart.
HandleStart ==
    /\ data.gameState = "READY"
    /\ tracker.sessionCounter < MaxSessions
    /\ LET t == StartInstant
            tr == StartSession(tracker)
            m == CalculateMetrics(tr)
            behaviorType == ClassifyBehavior(m)
            events == <<Event(GetStartCommentary(behaviorType, m), "system", "normal")>>
        IN  /\ now' = t
            /\ data' = [data EXCEPT !.gameState = "PLAYING"]
            /\ tracker' = tr
            /\ punishment' = ResetPunishment(punishment)
            /\ analyzer' = [analyzer EXCEPT !.currentSessionId = tr.sessionCounter,
                                            !.gameStartTime = t,
                                            !.commentaryEvents = events]
            /\ ui' = [ui EXCEPT !.aiState = StartState(behaviorType)]
            /\ hist' = [NoHist("handleStart") EXCEPT
                            !.prevLevel = punishment.corruptionLevel]
    /\ UNCHANGED <<breaker, ledger, played, esc, cls, call, disp>>

\* The outcomes of Math.random() < 0.15 (ambient taunt) and of
\* Math.random() < 0.2 (decoy comment) in the runs of this model.
TauntDraws == {FALSE}
DecoyCommentDraws == {FALSE}

\* The outcomes of the random draws of one onGameUpdate that can make a
\* difference at time t: a draw the code does not reach, or whose outcome it
\* cannot tell apart, has one outcome here.
Draws(p, snake, food, snakeLength, timeAlive, t) ==
    LET lvl == UpdateCorruptionLevel(p.corruptionLevel, timeAlive, snakeLength)
        eaten == p.foodEatenSinceLastBlock
        spawn == (lvl = 2 /\ eaten >= 5) \/ (lvl = 3 /\ eaten >= 2)
    IN  [r25 : IF lvl >= 1 /\ ~p.fakeFood.active THEN BOOLEAN ELSE {FALSE},
         rFluct : IF lvl >= 3 /\ ~p.speedFluctuationActive THEN BOOLEAN ELSE {FALSE},
         cooldown : IF t - p.lastCommentaryTime \in 3000 .. 4999
                    THEN {3000, 4999} ELSE {3000},
         r2 : IF lvl = 3 /\ eaten = 2 THEN {0, 1} ELSE {0},
         pick : IF spawn THEN ValidBlockCells(p, snake, food) \cup {NoCell}
                ELSE {NoCell},
         extras : IF lvl >= 3 THEN ExtraChoices ELSE {<<>>},
         taunt : TauntDraws,
         fakeFoodComment : DecoyCommentDraws]

\* The game-loop timer fires d ms after the previous instant: update, with
\* the callbacks into the analyzer it makes.
GameUpdate ==
    /\ data.gameState = "PLAYING"
    /\ played < MaxMoves
    /\ data.moveCount - ui.gameData.moveCount <= MaxLag
    /\ \E d \in Delays :
        LET t == now + d
            snakeLength == Len(data.snake)
        IN  \E r \in Draws(punishment, data.snake, data.food, snakeLength,
                           t - analyzer.gameStartTime, t) :
            \E ai \in {OnGameUpdate(analyzer, tracker, punishment, data.snake,
                                    data.food, snakeLength, t, r)} :
            LET d1 == [data EXCEPT !.speedMultiplier = ai.speedMultiplier,
                                   !.fakeFoods = ai.fakeFoods,
                                   !.environmentalBlocks = ai.environmentalBlocks,
                                   !.hasWon = ai.hasWon,
                                   !.direction = data.nextDirection]
                head == NextHead(d1.snake[1], d1.direction)
                death == Collision(d1, head)
                decoyHits == CountOf(d1.fakeFoods, head)
                primaryHit == /\ decoyHits > 0
                              /\ ai.punishment.fakeFood.active
                              /\ ai.punishment.fakeFood.position = head
                foodEaten == RealFoodHit(head, d1.food, decoyHits)
                approached == IF decoyHits > 0
                              THEN OnFakeFoodApproached(ai.punishment, head)
                              ELSE ai.punishment
                grown == <<head>> \o d1.snake
                h == [op |-> "gameUpdate",
                      prevLevel |-> punishment.corruptionLevel,
                      triggered |-> ai.corruptionTriggered,
                      moved |-> death = Null,
                      decoyHits |-> IF death = Null THEN decoyHits ELSE 0,
                      primaryHit |-> death = Null /\ primaryHit,
                      headOnFood |-> death = Null /\ head = d1.food]
            IN  /\ now' = t
                /\ analyzer' = ai.analyzer
                /\ hist' = h
                /\ played' = IF death = Null THEN played + 1 ELSE played
                /\ IF death # Null
                   THEN /\ data' = [d1 EXCEPT !.deathCause = death,
                                              !.gameState = "GAME_OVER"]
                        /\ punishment' = ai.punishment
                   ELSE IF foodEaten
                   THEN \* onRealFoodEaten, generateFood, generateBiasedFoodPosition
                        /\ punishment' = OnRealFoodEaten(approached, t)
                        /\ \E newFood \in BiasedFoodPositions(approached, grown) :
                            data' = [d1 EXCEPT !.snake = grown,
                                               !.moveCount = @ + 1,
                                               !.fakeFoods = FilterOut(@, head),
                                               !.score = @ + 10,
                                               !.food = newFood]
                   ELSE /\ punishment' = approached
                        /\ data' = [d1 EXCEPT !.snake = SubSeq(grown, 1, Len(grown) - 1),
                                              !.moveCount = @ + 1,
                                              !.fakeFoods = FilterOut(@, head)]
    /\ UNCHANGED <<breaker, ledger, tracker, ui, esc, cls, call, disp>>

\* The input handler calls setDirection.
SetDirection ==
    /\ data.gameState = "PLAYING"
    /\ played < MaxMoves
    /\ \E newDirection \in Directions :
        /\ Opposite(newDirection) # data.direction
        /\ data' = [data EXCEPT !.nextDirection = newDirection]
    /\ UNCHANGED <<breaker, ledger, now, analyzer, punishment, tracker, ui, hist, played, esc, cls, call, disp>>

\* The 50 ms interval of the component: onMove and getCurrentAIState when a
\* move was made since the data it saw last, onGameEnd when the game ended.
UIRefresh ==
    /\ ui.gameData # [moveCount |-> data.moveCount, gameState |-> data.gameState]
    /\ LET prev == ui.gameData
           moved == data.gameState = "PLAYING" /\ data.moveCount > prev.moveCount
           ended == data.gameState = "GAME_OVER" /\ prev.gameState = "PLAYING"
       IN  /\ \E pv \in (IF moved THEN PersistentViews ELSE {tracker.persistent}),
                wv \in (IF ended THEN WindowChoices(tracker) ELSE {tracker.window}),
                extras \in (IF moved /\ punishment.corruptionLevel >= 3
                            THEN ExtraChoices ELSE {<<>>}) :
                LET tr1 == IF moved THEN OnMove(analyzer, tracker, pv) ELSE tracker
                    end == OnGameEnd(analyzer, tr1, punishment, data.score,
                                     data.deathCause, data.hasWon, wv)
                IN  /\ tracker' = IF ended THEN end.tracker ELSE tr1
                    /\ analyzer' = IF ended THEN end.analyzer ELSE analyzer
                    /\ ui' = [gameData |-> [moveCount |-> data.moveCount,
                                            gameState |-> data.gameState],
                              aiState |->
                                  IF ended THEN end.aiState
                                  ELSE IF moved
                                  THEN CurrentAIState(analyzer, tr1, punishment, extras)
                                  ELSE ui.aiState]
           /\ hist' = NoHist(IF ended THEN "onGameEnd"
                             ELSE IF moved THEN "onMove" ELSE "refresh")
    /\ UNCHANGED <<breaker, ledger, now, data, punishment, played, esc, cls, call, disp>>

\* handleReset
HandleReset ==
    /\ data.gameState \in {"PLAYING", "GAME_OVER"}
    /\ \E food \in GenerateFood(<<Centre>>) : data' = FreshData(food)
    /\ ui' = [gameData |-> [moveCount |-> 0, gameState |-> "READY"],
              aiState |-> ResetAIState(ClassifyBehavior(CalculateMetrics(tracker)))]
    /\ hist' = [NoHist("handleReset") EXCEPT !.prevLevel = punishment.corruptionLevel]
    /\ UNCHANGED <<breaker, ledger, now, analyzer, punishment, tracker, played, esc, cls, call, disp>>

Next ==
    \/ HandleStart
    \/ GameUpdate
    \/ SetDirection
    \/ UIRefresh
    \/ HandleReset

Spec == Init /\ [][Next]_vars

(***************************************************************************)
(* One evaluation of the escalation state machine on drawn inputs          *)
(***************************************************************************)
\* Survival times (ms) and snake lengths the evaluation is applied to.
EscTimes == {0, 9900, 10000, 19900, 20000, 29900, 30000, 45000}
EscLengths == 1 .. 17

Quiet ==
    /\ now = StartInstant
    /\ played = 0
    /\ data = FreshData(<<GridSize - 1, GridSize - 1>>)
    /\ analyzer = FreshAnalyzer
    /\ punishment = FreshPunishment
    /\ tracker = FreshTracker
    /\ ui = [gameData |-> [moveCount |-> 0, gameState |-> "READY"],
             aiState |-> NullAIState]
    /\ hist = NoHist("init")
    /\ call = NoCall
    /\ disp = FreshDisplay
    /\ breaker = FreshBreaker
    /\ ledger = FreshLedger

InitEscalation ==
    /\ Quiet
    /\ cls = NoCls
    /\ esc \in [level : 0 .. 3, timeAlive : EscTimes, snakeLength : EscLengths,
                out : {0}, done : {FALSE}]

\* updateCorruptionLevel(timeAlive, snakeLength) at the drawn level.
EvaluateEscalation ==
    /\ ~esc.done
    /\ esc' = [esc EXCEPT !.out = UpdateCorruptionLevel(esc.level, esc.timeAlive,
                                                        esc.snakeLength),
                          !.done = TRUE]
    /\ UNCHANGED <<breaker, ledger, now, data, analyzer, punishment, tracker, ui, hist, played, cls, call, disp>>

NextEscalation == EvaluateEscalation

SpecEscalation == InitEscalation /\ [][NextEscalation]_vars

(***************************************************************************)
(* classifyBehavior on drawn metrics                                       *)
(***************************************************************************)
\* Metrics on both sides of every threshold of classifyBehavior.
ClassifyInputs ==
    {[wallHuggingFrequency |-> w,
      turnBias |-> [left |-> 0, right |-> tb, up |-> 0, down |-> 0],
      spiralBehaviorDetected |-> sp,
      averageReactionTime |-> rt,
      lengthBasedGreedThreshold |-> g,
      patternRepetition |-> pr,
      comfortZoneSize |-> cz,
      riskTolerance |-> 0,
      improvementTrend |-> tr,
      totalSessions |-> n,
      totalDeaths |-> dth,
      bestScore |-> 0,
      averageScore |-> 20001] :
        w \in {600, 601}, tb \in {400, 401}, sp \in BOOLEAN, rt \in {800, 801},
        g \in {500, 501}, pr \in {400, 401}, cz \in {299, 300}, tr \in {300, 301},
        n \in {0, 1, 2, 10}, dth \in {0, 1, 2, 7, 8}}

InitClassify ==
    /\ Quiet
    /\ esc = NoEsc
    /\ \E m \in ClassifyInputs :
        /\ m.totalDeaths <= m.totalSessions
        /\ cls = [m |-> m, out |-> "cautious", done |-> FALSE]

\* classifyBehavior on the drawn metrics.
Classify ==
    /\ ~cls.done
    /\ cls' = [cls EXCEPT !.out = ClassifyBehavior(cls.m), !.done = TRUE]
    /\ UNCHANGED <<breaker, ledger, now, data, analyzer, punishment, tracker, ui, hist, played, esc, call, disp>>

NextClassify == Classify

SpecClassify == InitClassify /\ [][NextClassify]_vars

(***************************************************************************)
(* The hooks of the analyzer called in any order, and the commentary       *)
(* display fed as the component feeds it                                   *)
(***************************************************************************)
\* The hook calls of a run.
MaxCalls == 5

\* The time (ms) between two calls that advance the clock.
HookDelays == {300, 3000, 13000}

\* The snakes and the food the game passes to onGameUpdate.
HookSnakes ==
    {<<Centre>>,
     <<Centre, <<1, 2>>, <<0, 2>>, <<0, 1>>, <<1, 1>>, <<2, 1>>>>}
HookFood == <<GridSize - 1, GridSize - 1>>

\* The draws of one onGameUpdate with both outcomes of the taunt draw and,
\* where a decoy can be on the board, of the decoy-comment draw.
HookDraws(p, snake, food, snakeLength, timeAlive, t) ==
    LET lvl == UpdateCorruptionLevel(p.corruptionLevel, timeAlive, snakeLength)
    IN  {[r EXCEPT !.taunt = a, !.fakeFoodComment = b] :
            r \in Draws(p, snake, food, snakeLength, timeAlive, t),
            a \in BOOLEAN,
            b \in IF lvl >= 1 THEN BOOLEAN ELSE {FALSE}}

InitHooks ==
    /\ Quiet
    /\ esc = NoEsc
    /\ cls = NoCls

\* onGameStart from handleStart, d ms after the previous call.  The START
\* button is there in game state READY: after mounting and after handleReset.
CallGameStart ==
    /\ played < MaxCalls
    /\ disp = FreshDisplay
    /\ breaker = FreshBreaker
    /\ ledger = FreshLedger
    /\ tracker.sessionCounter < MaxSessions
    /\ \E d \in HookDelays :
        LET t == now + d
            tr == StartSession(tracker)
            m == CalculateMetrics(tr)
            behaviorType == ClassifyBehavior(m)
            events == <<Event(GetStartCommentary(behaviorType, m), "system", "normal")>>
        IN  /\ now' = t
            /\ tracker' = tr
            /\ punishment' = ResetPunishment(punishment)
            /\ analyzer' = [analyzer EXCEPT !.currentSessionId = tr.sessionCounter,
                                            !.gameStartTime = t,
                                            !.commentaryEvents = events]
            /\ call' = [NoCall EXCEPT !.op = "onGameStart",
                                      !.hadSession = analyzer.currentSessionId # 0,
                                      !.prevLevel = punishment.corruptionLevel,
                                      !.commentaryEvents = events,
                                      !.aiState = StartState(behaviorType)]
            /\ disp' = ShowStart(disp, events, t)
    /\ played' = played + 1
    /\ UNCHANGED <<breaker, ledger, data, ui, hist, esc, cls>>

\* onGameUpdate from the game loop, d ms after the previous call and after
\* the component has seen the previous move.
CallGameUpdate ==
    /\ played < MaxCalls
    /\ ~disp.refreshDue
    /\ \E d \in HookDelays, snake \in HookSnakes :
        LET t == now + d
            snakeLength == Len(snake)
        IN  \E r \in HookDraws(punishment, snake, HookFood, snakeLength,
                               t - analyzer.gameStartTime, t) :
            \E ai \in {OnGameUpdate(analyzer, tracker, punishment, snake,
                                    HookFood, snakeLength, t, r)} :
                /\ now' = t
                /\ analyzer' = ai.analyzer
                /\ punishment' = ai.punishment
                /\ call' = [NoCall EXCEPT !.op = "onGameUpdate",
                                          !.hadSession = analyzer.currentSessionId # 0,
                                          !.prevLevel = punishment.corruptionLevel,
                                          !.speedMultiplier = ai.speedMultiplier,
                                          !.fakeFoods = ai.fakeFoods,
                                          !.environmentalBlocks = ai.environmentalBlocks,
                                          !.commentaryEvents = ai.commentaryEvents]
                /\ disp' = [disp EXCEPT !.refreshDue = analyzer.currentSessionId # 0]
    /\ played' = played + 1
    /\ UNCHANGED <<breaker, ledger, data, tracker, ui, hist, esc, cls>>

\* onMove
CallMove ==
    /\ played < MaxCalls
    /\ \E pv \in PersistentViews :
        tracker' = OnMove(analyzer, tracker, pv)
    /\ call' = [NoCall EXCEPT !.op = "onMove",
                              !.hadSession = analyzer.currentSessionId # 0,
                              !.prevLevel = punishment.corruptionLevel]
    /\ played' = played + 1
    /\ UNCHANGED <<breaker, ledger, now, data, analyzer, punishment, ui, hist, esc, cls, disp>>

\* The 50 ms interval after a move: getCurrentAIState and setAIState, and
\* the effects that follow.
Refresh ==
    /\ disp.refreshDue
    /\ disp' = ShowEvents(disp, analyzer.commentaryEvents, now)
    /\ UNCHANGED <<breaker, ledger, now, data, analyzer, punishment, tracker, ui, hist, played,
                   esc, cls, call>>

\* onGameEnd from the 50 ms interval.
CallGameEnd ==
    /\ played < MaxCalls
    /\ \E wv \in WindowChoices(tracker) :
        LET end == OnGameEnd(analyzer, tracker, punishment, 0, "wall", FALSE, wv)
        IN  /\ analyzer' = end.analyzer
            /\ tracker' = end.tracker
            /\ call' = [NoCall EXCEPT !.op = "onGameEnd",
                                      !.hadSession = analyzer.currentSessionId # 0,
                                      !.prevLevel = punishment.corruptionLevel,
                                      !.aiState = end.aiState]
    /\ disp' = [disp EXCEPT !.refreshDue = FALSE, !.batch = <<>>]
    /\ played' = played + 1
    /\ UNCHANGED <<breaker, ledger, now, data, punishment, ui, hist, esc, cls>>

\* handleReset: the commentary states it sets.
CallReset ==
    /\ played < MaxCalls
    /\ disp # FreshDisplay
    /\ disp' = FreshDisplay
    /\ call' = [NoCall EXCEPT !.op = "handleReset",
                              !.hadSession = analyzer.currentSessionId # 0,
                              !.prevLevel = punishment.corruptionLevel]
    /\ played' = played + 1
    /\ UNCHANGED <<breaker, ledger, now, data, analyzer, punishment, tracker, ui, hist, esc, cls>>

NextHooks ==
    \/ CallGameStart
    \/ CallGameUpdate
    \/ CallMove
    \/ Refresh
    \/ CallGameEnd
    \/ CallReset

SpecHooks == InitHooks /\ [][NextHooks]_vars

(***************************************************************************)
(* updateEnvironmentalBlocks with the loop of generateBlockPosition, tick  *)
(* after tick on one board                                                 *)
(***************************************************************************)
\* The obstacles of a run.
MaxBlocks == 2

\* The cells the candidates are drawn from: the two diagonals of the grid.
SampleCells ==
    {c \in Cells : c[1] = c[2] \/ c[1] + c[2] = GridSize - 1}

\* The snakes and the foods of the boards.
BlockSnakes == {<<Centre, <<1, 2>>>>, <<<<1, 1>>>>}
BlockFoods == {<<0, 0>>, <<GridSize - 1, GridSize - 1>>}

\* The candidate streams of one generateBlockPosition: no miss, 49 misses
\* and 50 misses before the cell that is sampled from then on.
Streams == [misses : {0, MaxAttempts - 1, MaxAttempts}, then : SampleCells]

\* History: eaten counts the onRealFoodEaten calls of the run.
NoBlockCall ==
    [op |-> "none", stream |-> [misses |-> 0, then |-> NoCell], r2 |-> 0,
     hasWon |-> FALSE, position |-> NoCell, attempts |-> 0, eaten |-> 0]

\* A board at level 1, 2 or 3 with no obstacle yet.
InitBlocks ==
    /\ now = StartInstant
    /\ played = 0
    /\ \E snake \in BlockSnakes, food \in BlockFoods :
        /\ food \notin SeqToSet(snake)
        /\ data = [FreshData(food) EXCEPT !.snake = snake, !.gameState = "PLAYING"]
    /\ analyzer = [FreshAnalyzer EXCEPT !.currentSessionId = 1,
                                        !.gameStartTime = StartInstant]
    /\ \E level \in 1 .. 3 :
        punishment = [FreshPunishment EXCEPT !.corruptionLevel = level,
                                            !.gameStartTime = StartInstant]
    /\ tracker = StartSession(FreshTracker)
    /\ ui = [gameData |-> [moveCount |-> 0, gameState |-> "PLAYING"],
             aiState |-> StartState("cautious")]
    /\ hist = NoHist("init")
    /\ esc = NoEsc
    /\ cls = NoCls
    /\ call = NoBlockCall
    /\ disp = FreshDisplay
    /\ breaker = FreshBreaker
    /\ ledger = FreshLedger

\* updateEnvironmentalBlocks of one tick; the candidates are drawn when
\* generateBlockPosition is called.  hasWon is drawn: the grid of the model
\* has no room for the snake of 51 segments that makes it true.
BlockTick ==
    /\ Len(punishment.environmentalBlocks) < MaxBlocks
    /\ \E hasWon \in BOOLEAN,
          r2 \in (IF punishment.corruptionLevel = 3 THEN {0, 1} ELSE {0}) :
        \E stream \in (IF ShouldSpawnBlock(punishment, hasWon, r2)
                       THEN Streams ELSE {NoBlockCall.stream}) :
        \E g \in {IF ShouldSpawnBlock(punishment, hasWon, r2)
                  THEN GenerateBlockPosition(punishment, data.snake, data.food,
                                             stream)
                  ELSE [position |-> NoCell, attempts |-> 0]} :
            /\ punishment' = UpdateEnvironmentalBlocks(punishment, hasWon, r2,
                                                       g.position)
            /\ call' = [op |-> "updateEnvironmentalBlocks", stream |-> stream,
                        r2 |-> r2, hasWon |-> hasWon,
                        position |-> g.position, attempts |-> g.attempts,
                        eaten |-> call.eaten]
    /\ UNCHANGED <<breaker, ledger, now, data, analyzer, tracker, ui, hist, played, esc, cls, disp>>

\* onRealFoodEaten
BlockFood ==
    /\ punishment.foodEatenSinceLastBlock < 5
    /\ punishment' = OnRealFoodEaten(punishment, now)
    /\ call' = [NoBlockCall EXCEPT !.op = "onRealFoodEaten",
                                    !.eaten = call.eaten + 1]
    /\ UNCHANGED <<breaker, ledger, now, data, analyzer, tracker, ui, hist, played, esc, cls, disp>>

NextBlocks ==
    \/ BlockTick
    \/ BlockFood

SpecBlocks == InitBlocks /\ [][NextBlocks]_vars

(***************************************************************************)
(* The tracker on its own: sessions of recorded moves                      *)
(***************************************************************************)
\* The moves recorded in a run, and the side of the grid recordMove is told.
MaxRecorded == 6
TrackerGrid == 7

\* The time (ms) between two moves: the period of the game loop.
MoveDelay == 150

\* The directions and heads of the recorded moves: on the wall and in the
\* middle of the grid.
MetricDirections == {"UP", "RIGHT"}
MetricHeads == {<<0, 0>>, <<TrackerGrid \div 2, TrackerGrid \div 2>>}

\* Everything but the tracker under test is as the component mounts it.
InitTracker ==
    /\ now = StartInstant
    /\ played = 0
    /\ data = FreshData(<<GridSize - 1, GridSize - 1>>)
    /\ analyzer = FreshAnalyzer
    /\ punishment = FreshPunishment
    /\ tracker = FreshTracker
    /\ ui = [gameData |-> [moveCount |-> 0, gameState |-> "READY"],
             aiState |-> NullAIState]
    /\ hist = NoHist("init")
    /\ esc = NoEsc
    /\ cls = NoCls
    /\ call = FreshMoveLog
    /\ disp = FreshDisplay
    /\ breaker = FreshBreaker
    /\ ledger = FreshLedger

\* The time (ms) the player lets pass before starting a session.
IdleDelays == {0, 60000}

TrackStart ==
    /\ ~call.hasSession
    /\ Len(call.sessions) < MaxSessions
    /\ call' = StartSessionFull(call)
    /\ \E idle \in IdleDelays : now' = now + idle
    /\ UNCHANGED <<breaker, ledger, data, analyzer, punishment, tracker, ui, hist, played,
                   esc, cls, disp>>

TrackMove ==
    /\ call.hasSession
    /\ played < MaxRecorded
    /\ \E direction \in MetricDirections, head \in MetricHeads :
        call' = RecordMoveFull(call, direction, head, TrackerGrid, TrackerGrid,
                               now + MoveDelay)
    /\ now' = now + MoveDelay
    /\ played' = played + 1
    /\ UNCHANGED <<breaker, ledger, data, analyzer, punishment, tracker, ui, hist, esc, cls, disp>>

TrackEnd ==
    /\ call.hasSession
    /\ call' = EndSessionFull(call)
    /\ UNCHANGED <<breaker, ledger, now, data, analyzer, punishment, tracker, ui, hist, played,
                   esc, cls, disp>>

NextMetrics ==
    \/ TrackStart
    \/ TrackMove
    \/ TrackEnd

SpecMetrics == InitTracker /\ [][NextMetrics]_vars

(***************************************************************************)
(* The tracker on its own: the directions of one session                   *)
(***************************************************************************)
\* The directions recorded in the session.
MaxHistory == 8

TurnStart ==
    /\ ~call.hasSession
    /\ call.sessions = <<>>
    /\ call' = StartSessionFull(call)
    /\ UNCHANGED <<breaker, ledger, now, data, analyzer, punishment, tracker, ui, hist, played,
                   esc, cls, disp>>

TurnMove ==
    /\ call.hasSession
    /\ Len(call.directionHistory) < MaxHistory
    /\ \E direction \in Directions :
        call' = RecordMoveFull(call, direction, Centre, GridSize, GridSize,
                               now + MoveDelay)
    /\ now' = now + MoveDelay
    /\ UNCHANGED <<breaker, ledger, data, analyzer, punishment, tracker, ui, hist, played, esc,
                   cls, disp>>

NextSpiral ==
    \/ TurnStart
    \/ TurnMove

SpecSpiral == InitTracker /\ [][NextSpiral]_vars

(***************************************************************************)
(* The tracker on its own: the window of completed sessions                *)
(***************************************************************************)
\* The sessions completed in a run: more than the window keeps.
MaxCompleted == 12

\* The scores and death causes endSession is given.
WindowScores == {0, 10}
WindowCauses == {"wall"}

\* call.completed lists every session endSession was given, in completion
\* order (history).
InitWindow ==
    /\ now = StartInstant
    /\ played = 0
    /\ data = FreshData(<<GridSize - 1, GridSize - 1>>)
    /\ analyzer = FreshAnalyzer
    /\ punishment = FreshPunishment
    /\ tracker = FreshTracker
    /\ ui = [gameData |-> [moveCount |-> 0, gameState |-> "READY"],
             aiState |-> NullAIState]
    /\ hist = NoHist("init")
    /\ esc = NoEsc
    /\ cls = NoCls
    /\ call = [op |-> "none", completed |-> <<>>]
    /\ disp = FreshDisplay
    /\ breaker = FreshBreaker
    /\ ledger = FreshLedger

StartWindowSession ==
    /\ tracker.sessionCounter < MaxCompleted
    /\ tracker' = StartSession(tracker)
    /\ call' = [call EXCEPT !.op = "startSession"]
    /\ UNCHANGED <<breaker, ledger, now, data, analyzer, punishment, ui, hist, played, esc, cls, disp>>

EndWindowSession ==
    /\ \E score \in WindowScores, deathCause \in WindowCauses :
        /\ tracker' = EndSession(tracker, score, deathCause, tracker.window)
        /\ call' = [op |-> "endSession",
                    completed |->
                        IF tracker.hasSession
                        THEN Append(call.completed,
                                    [score |-> score, deathCause |-> deathCause,
                                     moves |-> tracker.sessionMoves])
                        ELSE call.completed]
    /\ UNCHANGED <<breaker, ledger, now, data, analyzer, punishment, ui, hist, played, esc, cls, disp>>

NextWindow ==
    \/ StartWindowSession
    \/ EndWindowSession

SpecWindow == InitWindow /\ [][NextWindow]_vars

(***************************************************************************)
(* The tracker on its own: the queries between the recording calls         *)
(***************************************************************************)
\* The sessions of a run and the moves recorded in one session.
MaxQueried == 3
MaxQueriedMoves == 1

QueryScores == {0, 30}

\* call keeps what calculateMetrics and classifyBehavior returned last since
\* the last startSession, recordMove or endSession, if they were called
\* since, and whether the last call repeated one (history).
NoQuery ==
    [op |-> "none", repeated |-> FALSE,
     hasMetrics |-> FALSE, metrics |-> CalculateMetrics(FreshTracker),
     hasBehavior |-> FALSE, behaviorType |-> "cautious"]

InitQuery ==
    /\ now = StartInstant
    /\ played = 0
    /\ data = FreshData(<<GridSize - 1, GridSize - 1>>)
    /\ analyzer = FreshAnalyzer
    /\ punishment = FreshPunishment
    /\ tracker = FreshTracker
    /\ ui = [gameData |-> [moveCount |-> 0, gameState |-> "READY"],
             aiState |-> NullAIState]
    /\ hist = NoHist("init")
    /\ esc = NoEsc
    /\ cls = NoCls
    /\ call = NoQuery
    /\ disp = FreshDisplay
    /\ breaker = FreshBreaker
    /\ ledger = FreshLedger

QueryStartSession ==
    /\ tracker.sessionCounter < MaxQueried
    /\ tracker' = StartSession(tracker)
    /\ call' = [NoQuery EXCEPT !.op = "startSession"]
    /\ UNCHANGED <<breaker, ledger, now, data, analyzer, punishment, ui, hist, played, esc, cls, disp>>

QueryRecordMove ==
    /\ tracker.hasSession
    /\ tracker.sessionMoves < MaxQueriedMoves
    /\ \E pv \in PersistentViews : tracker' = RecordMove(tracker, pv)
    /\ call' = [NoQuery EXCEPT !.op = "recordMove"]
    /\ UNCHANGED <<breaker, ledger, now, data, analyzer, punishment, ui, hist, played, esc, cls, disp>>

QueryEndSession ==
    /\ tracker.hasSession
    /\ \E score \in QueryScores, deathCause \in {"wall", Null},
          wv \in WindowChoices(tracker) :
        tracker' = EndSession(tracker, score, deathCause, wv)
    /\ call' = [NoQuery EXCEPT !.op = "endSession"]
    /\ UNCHANGED <<breaker, ledger, now, data, analyzer, punishment, ui, hist, played, esc, cls, disp>>

QueryMetrics ==
    /\ \E c \in {CalculateMetricsCall(tracker)} :
        /\ tracker' = c.tracker
        /\ call' = [call EXCEPT !.op = "calculateMetrics", !.hasMetrics = TRUE,
                                !.repeated = call.hasMetrics,
                                !.metrics = c.result]
    /\ UNCHANGED <<breaker, ledger, now, data, analyzer, punishment, ui, hist, played, esc, cls, disp>>

QueryBehavior ==
    /\ \E c \in {ClassifyBehaviorCall(tracker)} :
        /\ tracker' = c.tracker
        /\ call' = [call EXCEPT !.op = "classifyBehavior", !.hasBehavior = TRUE,
                                !.repeated = call.hasBehavior,
                                !.behaviorType = c.result]
    /\ UNCHANGED <<breaker, ledger, now, data, analyzer, punishment, ui, hist, played, esc, cls, disp>>

NextQuery ==
    \/ QueryStartSession
    \/ QueryRecordMove
    \/ QueryEndSession
    \/ QueryMetrics
    \/ QueryBehavior

SpecQuery == InitQuery /\ [][NextQuery]_vars

(***************************************************************************)
(* The block breaker's analyzer: events, resets and delayed callbacks      *)
(***************************************************************************)
\* The run: the clock stops MaxBreakerTime after the page was loaded, the
\* player misses at most MaxMissed balls and destroys at most MaxDestroyed
\* blocks between two resets, and reset() is called at most MaxResets times.
MaxBreakerTime == 30000
MaxMissed == 4
MaxDestroyed == 6
MaxResets == 2

\* The time (ms) between two instants at which something happens.
BreakerDelays == {3000, 9000}

\* Outcomes of Math.random(): 10 regenerated blocks, 2 fake blocks and 3
\* stubborn blocks, at the drawn cells of the 10 x 6 block grid.
RegenCells == {<<0, 0>>}
FakeCells == {<<0, 0>>, <<9, 5>>}
Repeat(cell, n) == [i \in 1 .. n |-> cell]
NoBreakerDraw == [regen |-> <<>>, fake |-> <<>>, stubborn |-> <<>>]

\* The draws an event can use: massRegenerateBlocks runs on entering level
\* 2, generateFakeBlocks and generateStubbornBlocks on entering level 3.
BreakerDraws(b, type) ==
    IF type # "block_hit" THEN {NoBreakerDraw}
    ELSE {[regen |-> regen, fake |-> fake, stubborn |-> stubborn] :
            regen \in (IF b.corruption.level <= 1
                       THEN {Repeat(c, 10) : c \in RegenCells}
                       ELSE {<<>>}),
            fake \in (IF b.corruption.level \in {1, 2}
                      THEN [1 .. 2 -> FakeCells]
                      ELSE {<<>>}),
            stubborn \in (IF b.corruption.level \in {1, 2}
                          THEN {Repeat(c, 3) : c \in RegenCells}
                          ELSE {<<>>})}

TimerDue(b, t) == \E i \in 1 .. Len(b.timers) : b.timers[i].due <= t

InitBreaker ==
    /\ Quiet
    /\ esc = NoEsc
    /\ cls = NoCls

\* The component mounts, or R is pressed: initializeGame(800), after
\* resetCorruption() in the key handler.
BreakerInitializeGame ==
    /\ ~TimerDue(breaker, now)
    /\ breaker.resets < MaxResets
    /\ breaker' = InitializeGame(breaker, now)
    /\ UNCHANGED <<now, data, analyzer, punishment, tracker, ui, hist, played,
                   esc, cls, call, disp, ledger>>

BreakerResetCorruption ==
    /\ ~TimerDue(breaker, now)
    /\ breaker.op # "new"
    /\ breaker.resets < MaxResets
    /\ breaker' = ResetCorruption(breaker)
    /\ UNCHANGED <<now, data, analyzer, punishment, tracker, ui, hist, played,
                   esc, cls, call, disp, ledger>>

\* The game loop reports a missed ball, a destroyed block or the end of the
\* game.
BreakerGameEvent ==
    /\ ~TimerDue(breaker, now)
    /\ breaker.op # "new"
    /\ \E type \in {"ball_missed", "block_hit", "game_end"} :
        /\ type = "ball_missed" => breaker.corruption.missedBalls < MaxMissed
        /\ type = "block_hit" => breaker.corruption.blocksDestroyed < MaxDestroyed
        /\ type = "game_end" => breaker.resets < MaxResets
        /\ \E r \in BreakerDraws(breaker, type),
              improve \in (IF type = "game_end" THEN BOOLEAN ELSE {FALSE}) :
            breaker' = ProcessGameEvent(breaker, type, now, r, improve)
    /\ UNCHANGED <<now, data, analyzer, punishment, tracker, ui, hist, played,
                   esc, cls, call, disp, ledger>>

\* The ball is on a fake block.
BreakerFakeBlockHit ==
    /\ ~TimerDue(breaker, now)
    /\ \E pos \in SeqToSet(breaker.corruption.fakeBlocks) :
        breaker' = OnFakeBlockHit(breaker, pos, now)
    /\ UNCHANGED <<now, data, analyzer, punishment, tracker, ui, hist, played,
                   esc, cls, call, disp, ledger>>

\* A callback that is due runs, before anything else that happens at this
\* instant.
BreakerTimer ==
    /\ TimerDue(breaker, now)
    /\ breaker' = RunTimer(breaker)
    /\ UNCHANGED <<now, data, analyzer, punishment, tracker, ui, hist, played,
                   esc, cls, call, disp, ledger>>

\* Time passes once the callbacks that are due have run.
BreakerTick ==
    /\ ~TimerDue(breaker, now)
    /\ \E d \in BreakerDelays :
        /\ now + d <= StartInstant + MaxBreakerTime
        /\ now' = now + d
    /\ UNCHANGED <<data, analyzer, punishment, tracker, ui, hist, played,
                   esc, cls, call, disp, breaker, ledger>>

NextBreaker ==
    \/ BreakerInitializeGame
    \/ BreakerResetCorruption
    \/ BreakerGameEvent
    \/ BreakerFakeBlockHit
    \/ BreakerTimer
    \/ BreakerTick

SpecBreaker == InitBreaker /\ [][NextBreaker]_vars

(***************************************************************************)
(* The console's ledger and its saves                                      *)
(***************************************************************************)
\* The saves issued in a run and the console sessions started.
MaxSaves == 3
MaxLedgerSessions == 2

\* The scores recordSnakeGameEnd is given.
LedgerScores == {0, 10}

InitLedger ==
    /\ Quiet
    /\ esc = NoEsc
    /\ cls = NoCls

LedgerStart ==
    /\ ledger.sessionCounter < MaxLedgerSessions
    /\ ledger' = LedgerStartSession(ledger)
    /\ UNCHANGED <<now, data, analyzer, punishment, tracker, ui, hist, played,
                   esc, cls, call, disp, breaker>>

LedgerLaunch ==
    /\ ledger.issued < MaxSaves
    /\ \E gameId \in LedgerGames : ledger' = RecordGameLaunch(ledger, gameId)
    /\ UNCHANGED <<now, data, analyzer, punishment, tracker, ui, hist, played,
                   esc, cls, call, disp, breaker>>

LedgerSnakeEnd ==
    /\ ledger.issued < MaxSaves
    /\ \E score \in LedgerScores, wasFailure \in BOOLEAN :
        ledger' = RecordSnakeGameEnd(ledger, score, wasFailure)
    /\ UNCHANGED <<now, data, analyzer, punishment, tracker, ui, hist, played,
                   esc, cls, call, disp, breaker>>

LedgerEnd ==
    /\ ledger.issued < MaxSaves
    /\ ledger' = LedgerEndSession(ledger)
    /\ UNCHANGED <<now, data, analyzer, punishment, tracker, ui, hist, played,
                   esc, cls, call, disp, breaker>>

\* The fetch of a pending request settles; requests settle in any order.
LedgerSettle ==
    /\ \E i \in 1 .. Len(ledger.requests), response \in Responses :
        ledger' = RequestSettled(ledger, i, response)
    /\ UNCHANGED <<now, data, analyzer, punishment, tracker, ui, hist, played,
                   esc, cls, call, disp, breaker>>

NextLedger ==
    \/ LedgerStart
    \/ LedgerLaunch
    \/ LedgerSnakeEnd
    \/ LedgerEnd
    \/ LedgerSettle

SpecLedger == InitLedger /\ [][NextLedger]_vars

(***************************************************************************)
(* The speed surge over successive evaluations                             *)
(***************************************************************************)
\* The session is followed while timeAlive is below MaxSurgeTime, that is
\* before the time rule of level 3, and for MaxEaten foods.
MaxSurgeTime == 30000
MaxEaten == 2

\* The milliseconds between two evaluations.
SurgeDelays == {300, 1600, 10000}

\* esc.twin is a punishment system given the same evaluations and no
\* onRealFoodEaten call, so that no surge ever starts in it.  esc.eaten
\* counts the foods eaten; esc.after is -1 while no surge has ended, 0 at
\* the evaluation that ends one and 1 at the evaluations after it.
InitSurge ==
    /\ now = StartInstant
    /\ played = 0
    /\ data = FreshData(<<GridSize - 1, GridSize - 1>>)
    /\ analyzer = FreshAnalyzer
    /\ punishment = FreshPunishment
    /\ tracker = FreshTracker
    /\ ui = [gameData |-> [moveCount |-> 0, gameState |-> "READY"],
             aiState |-> NullAIState]
    /\ hist = NoHist("init")
    /\ call = NoCall
    /\ disp = FreshDisplay
    /\ breaker = FreshBreaker
    /\ ledger = FreshLedger
    /\ cls = NoCls
    /\ esc = [twin |-> FreshPunishment, eaten |-> 0, after |-> -1]

\* updateCorruptionLevel and updateSpeedCorruption of one evaluation at
\* time t, for a player whose metrics are those of an empty history.
SurgeEvaluate(p, t, snakeLength) ==
    LET timeAlive == t - StartInstant
        p1 == [p EXCEPT !.gameStartTime = IF @ = 0 THEN t ELSE @,
                        !.corruptionLevel =
                            UpdateCorruptionLevel(@, timeAlive, snakeLength)]
    IN  UpdateSpeedCorruption(p1, CalculateMetrics(FreshTracker), t, timeAlive, FALSE)

\* One game update d ms after the previous one: the evaluation, then the
\* move, on which the snake may eat the food.
SurgeTick ==
    \E d \in SurgeDelays, eats \in BOOLEAN :
        LET t == now + d
            snakeLength == 1 + esc.eaten
            p1 == SurgeEvaluate(punishment, t, snakeLength)
        IN  /\ t - StartInstant < MaxSurgeTime
            /\ eats => esc.eaten < MaxEaten
            /\ now' = t
            /\ punishment' = IF eats THEN OnRealFoodEaten(p1, t) ELSE p1
            /\ esc' = [twin |-> SurgeEvaluate(esc.twin, t, snakeLength),
                       eaten |-> IF eats THEN esc.eaten + 1 ELSE esc.eaten,
                       after |-> IF eats \/ p1.speedSurgeActive THEN -1
                                 ELSE IF punishment.speedSurgeActive THEN 0
                                 ELSE IF esc.after >= 0 THEN 1
                                 ELSE -1]
            /\ UNCHANGED <<breaker, ledger, data, analyzer, tracker, ui, hist,
                           played, cls, call, disp>>

NextSurge == SurgeTick

SpecSurge == InitSurge /\ [][NextSurge]_vars

(***************************************************************************)
(* updateFoodBias on drawn metrics                                         *)
(***************************************************************************)
\* The evaluations of one session that are followed.
MaxBiasTicks == 3

\* The metrics updateFoodBias reads, in thousandths.  The greed ratio is a
\* length per second of survival (a length of 4 after 10 s gives 0.4, of 3
\* after 2 s gives 1.5) and has no upper bound; a comfort zone of 0.8 is an
\* average wall distance of 8 cells.
BiasMetrics ==
    [comfortZoneSize : {500, 800},
     lengthBasedGreedThreshold : {0, 400, 700, 1500},
     wallHuggingFrequency : {100, 500},
     turnBias : {[left |-> 250, right |-> 250, up |-> 250, down |-> 250],
                 [left |-> 0, right |-> 1000, up |-> 0, down |-> 0]}]

\* esc.m holds the metrics of the last evaluation, esc.before the weights
\* before it and esc.ticks the evaluations made.
InitBias ==
    /\ Quiet
    /\ cls = NoCls
    /\ esc = [m |-> CHOOSE m \in BiasMetrics : TRUE,
              before |-> FreshPunishment.foodBias,
              ticks |-> 0]

\* updateFoodBias with the metrics calculateMetrics returned.
BiasTick ==
    /\ esc.ticks < MaxBiasTicks
    /\ \E m \in BiasMetrics :
        /\ punishment' = UpdateFoodBias(punishment, m)
        /\ esc' = [m |-> m, before |-> punishment.foodBias, ticks |-> esc.ticks + 1]
    /\ UNCHANGED <<breaker, ledger, now, data, analyzer, tracker, ui, hist,
                   played, cls, call, disp>>

NextBias == BiasTick

SpecBias == InitBias /\ [][NextBias]_vars

(***************************************************************************)
(* The greed ratio over sessions with their times                          *)
(***************************************************************************)
\* The sessions of a run and the moves of a session.
MaxGreedSessions == 3
MaxGreedMoves == 2

\* The time (ms) that passes before a call, 0 when two calls fall into the
\* same millisecond of Date.now(), and the snake lengths recorded.
GreedDelays == {0, 1000}
GreedLengths == {1, 3}

InitGreed ==
    /\ now = StartInstant
    /\ played = 0
    /\ data = FreshData(<<GridSize - 1, GridSize - 1>>)
    /\ analyzer = FreshAnalyzer
    /\ punishment = FreshPunishment
    /\ tracker = FreshTracker
    /\ ui = [gameData |-> [moveCount |-> 0, gameState |-> "READY"],
             aiState |-> NullAIState]
    /\ hist = NoHist("init")
    /\ esc = NoEsc
    /\ cls = NoCls
    /\ call = FreshGreedLog
    /\ disp = FreshDisplay
    /\ breaker = FreshBreaker
    /\ ledger = FreshLedger

GreedStart ==
    /\ ~call.hasSession
    /\ Len(call.sessions) < MaxGreedSessions
    /\ \E d \in GreedDelays :
        /\ now' = now + d
        /\ call' = GreedStartSession(call, now + d)
    /\ UNCHANGED <<breaker, ledger, data, analyzer, punishment, tracker, ui, hist,
                   played, esc, cls, disp>>

GreedMove ==
    /\ call.hasSession
    /\ Len(call.lengths) < MaxGreedMoves
    /\ \E d \in GreedDelays, snakeLength \in GreedLengths :
        /\ now' = now + d
        /\ call' = GreedRecordMove(call, snakeLength)
    /\ UNCHANGED <<breaker, ledger, data, analyzer, punishment, tracker, ui, hist,
                   played, esc, cls, disp>>

GreedEnd ==
    /\ call.hasSession
    /\ \E d \in GreedDelays :
        /\ now' = now + d
        /\ call' = GreedEndSession(call, now + d)
    /\ UNCHANGED <<breaker, ledger, data, analyzer, punishment, tracker, ui, hist,
                   played, esc, cls, disp>>

NextGreed ==
    \/ GreedStart
    \/ GreedMove
    \/ GreedEnd

SpecGreed == InitGreed /\ [][NextGreed]_vars

(***************************************************************************)

(* The escalation level over the ticks of a session                        *)
(***************************************************************************)

\* The survival time is followed up to MaxClimbTime: updateCorruptionLevel
\* tells no two times at or above 30 s apart.  The snake is followed up to
\* MaxClimbLength cells, one beyond the last length threshold.
MaxClimbTime == 30000
MaxClimbLength == 17
MaxClimbTicks == 4

\* The milliseconds between two evaluated ticks.
ClimbDelays == {1000, 10000, 30000}

\* esc.timeAlive is Date.now() - gameStartTime at the last evaluated tick,
\* esc.ticks the ticks evaluated in the session and esc.late those of them
\* evaluated at or after 30 s, both counted up to MaxClimbTicks.
NoClimb == [op |-> "init", timeAlive |-> 0, snakeLength |-> 1, ticks |-> 0, late |-> 0]

InitClimb ==
    /\ now = StartInstant
    /\ played = 0
    /\ data = FreshData(<<GridSize - 1, GridSize - 1>>)
    /\ analyzer = FreshAnalyzer
    /\ punishment = FreshPunishment
    /\ tracker = FreshTracker
    /\ ui = [gameData |-> [moveCount |-> 0, gameState |-> "READY"],
             aiState |-> NullAIState]
    /\ hist = NoHist("init")
    /\ call = NoCall
    /\ disp = FreshDisplay
    /\ breaker = FreshBreaker
    /\ ledger = FreshLedger
    /\ cls = NoCls
    /\ esc = NoClimb

\* onGameStart: the punishment system is reset and a session id is set,
\* whether or not a session was active.
ClimbStart ==
    /\ punishment' = ResetPunishment(punishment)
    /\ analyzer' = [analyzer EXCEPT !.currentSessionId = 1]
    /\ esc' = [NoClimb EXCEPT !.op = "start"]
    /\ UNCHANGED <<breaker, ledger, now, data, tracker, ui, hist, played, cls,
                   call, disp>>

\* onGameUpdate of a tick d ms after the previous one, in an active session:
\* updateCorruptionLevel(timeAlive, snakeLength).  The snake may have grown
\* by one cell since the previous tick.
ClimbTick ==
    \E d \in ClimbDelays, grown \in BOOLEAN :
        LET timeAlive == Min(esc.timeAlive + d, MaxClimbTime)
            snakeLength == IF grown THEN Min(esc.snakeLength + 1, MaxClimbLength)
                           ELSE esc.snakeLength
        IN  /\ analyzer.currentSessionId # 0
            /\ punishment' = [punishment EXCEPT !.corruptionLevel =
                                 UpdateCorruptionLevel(@, timeAlive, snakeLength)]
            /\ esc' = [op |-> "tick",
                       timeAlive |-> timeAlive,
                       snakeLength |-> snakeLength,
                       ticks |-> Min(esc.ticks + 1, MaxClimbTicks),
                       late |-> IF timeAlive >= 30000
                                THEN Min(esc.late + 1, MaxClimbTicks)
                                ELSE esc.late]
            /\ UNCHANGED <<breaker, ledger, now, data, analyzer, tracker, ui,
                           hist, played, cls, call, disp>>

\* onGameEnd: the session id is cleared, and later ticks are not evaluated.
ClimbEnd ==
    /\ analyzer.currentSessionId # 0
    /\ analyzer' = [analyzer EXCEPT !.currentSessionId = 0]
    /\ esc' = [esc EXCEPT !.op = "end"]
    /\ UNCHANGED <<breaker, ledger, now, data, punishment, tracker, ui, hist,
                   played, cls, call, disp>>

NextClimb ==
    \/ ClimbStart
    \/ ClimbTick
    \/ ClimbEnd

\* The game loop is an interval timer that calls update for as long as the
\* game is being played, so a tick that stays possible is taken.
SpecClimb == InitClimb /\ [][NextClimb]_vars /\ WF_vars(ClimbTick)

(***************************************************************************)

(* The consecutive-failure counter over the ends of successive sessions    *)
(***************************************************************************)

MaxFailSessions == 5

\* The scores the sessions end with.
FailScores == {0, 20, 30}

\* esc describes the last call: whether onGameEnd found a session, the
\* counter before it, its score and hasWon, and the recommendation it made.
\* esc.low counts the non-winning ends below 30 since the last non-winning
\* end at 30 or above.
NoFail ==
    [op |-> "init", evaluated |-> FALSE, before |-> 0, score |-> 0,
     hasWon |-> FALSE, recommendation |-> "none", low |-> 0]

InitFailures ==
    /\ now = StartInstant
    /\ played = 0
    /\ data = FreshData(<<GridSize - 1, GridSize - 1>>)
    /\ analyzer = FreshAnalyzer
    /\ punishment = FreshPunishment
    /\ tracker = FreshTracker
    /\ ui = [gameData |-> [moveCount |-> 0, gameState |-> "READY"],
             aiState |-> NullAIState]
    /\ hist = NoHist("init")
    /\ call = NoCall
    /\ disp = FreshDisplay
    /\ breaker = FreshBreaker
    /\ ledger = FreshLedger
    /\ cls = NoCls
    /\ esc = NoFail

\* onGameStart
FailStart ==
    /\ tracker.sessionCounter < MaxFailSessions
    /\ tracker' = StartSession(tracker)
    /\ punishment' = ResetPunishment(punishment)
    /\ analyzer' = [analyzer EXCEPT !.currentSessionId = tracker'.sessionCounter,
                                    !.gameStartTime = now]
    /\ esc' = [esc EXCEPT !.op = "start"]
    /\ UNCHANGED <<breaker, ledger, now, data, ui, hist, played, cls, call, disp>>

\* onGameEnd(score, deathCause, hasWon), with or without an active session.
FailEnd ==
    \E score \in FailScores, hasWon \in BOOLEAN :
        LET end == OnGameEnd(analyzer, tracker, punishment, score,
                             IF hasWon THEN Null ELSE "wall", hasWon, ZeroWindow)
            evaluated == analyzer.currentSessionId # 0
        IN  /\ analyzer' = end.analyzer
            /\ tracker' = end.tracker
            /\ esc' = [op |-> "end",
                       evaluated |-> evaluated,
                       before |-> analyzer.consecutiveFailures,
                       score |-> score,
                       hasWon |-> hasWon,
                       recommendation |-> IF evaluated
                                          THEN Recommendation(analyzer, score, hasWon)
                                          ELSE "none",
                       low |-> IF ~evaluated \/ hasWon THEN esc.low
                               ELSE IF score < 30 THEN esc.low + 1
                               ELSE 0]
            /\ UNCHANGED <<breaker, ledger, now, data, punishment, ui, hist,
                           played, cls, call, disp>>

NextFailures ==
    \/ FailStart
    \/ FailEnd

SpecFailures == InitFailures /\ [][NextFailures]_vars

(***************************************************************************)
(* Properties                                                              *)
(***************************************************************************)
\* A step is a game-logic tick exactly when the clock advances.
TickStep == now' > now
\* A step is onGameStart exactly when the session counter moves.
StartStep == tracker'.sessionCounter # tracker.sessionCounter
\* A step is onGameEnd on an active session exactly when the session id is
\* cleared.
EndStep == analyzer.currentSessionId # 0 /\ analyzer'.currentSessionId = 0
\* A step is handleReset exactly when the game goes back to READY.
ResetStep == data.gameState # "READY" /\ data'.gameState = "READY"

\* C1: within a session the escalation level never decreases from one
\* evaluation to the next, and every onGameStart sets it to 0 whatever level
\* the previous session ended at.
C1_LevelMonotoneAndResetAtStart ==
    [][IF StartStep
       THEN punishment'.corruptionLevel = 0
       ELSE punishment'.corruptionLevel >= punishment.corruptionLevel]_vars

\* C1 witness: a session has just started at level 0 after the previous
\* session had reached level 1 or more.
C1_Witness ==
    /\ hist.op = "handleStart"
    /\ hist.prevLevel >= 1
    /\ tracker.sessionCounter = 2
    /\ punishment.corruptionLevel = 0

\* The threshold of level k is met by survival time T (ms) or length n.
Reached(k, T, n) == T >= 10000 * k \/ n >= 5 * k + 1

\* C2: one evaluation at level L in {0,1,2} yields L+1 exactly when the
\* elapsed time is at least 10*(L+1) seconds or the length at least
\* 5*(L+1)+1, and L otherwise; level 3 is absorbing.
C2_OneEvaluation ==
    esc.done =>
        IF esc.level < 3
        THEN IF Reached(esc.level + 1, esc.timeAlive, esc.snakeLength)
             THEN esc.out = esc.level + 1
             ELSE esc.out = esc.level
        ELSE esc.out = 3

\* C2 witness: level 0, length 5, 10.0 s evaluated to level 1.
C2_Witness ==
    /\ esc.done
    /\ esc.level = 0 /\ esc.snakeLength = 5 /\ esc.timeAlive = 10000
    /\ esc.out = 1

\* C3: a tick raises the level by at most one; while the threshold of the
\* next level is met every tick advances one level; the tick reports a
\* level-change trigger for exactly the level it entered, and none when the
\* level stays.
C3_OneLevelPerTick ==
    [][TickStep =>
        LET L == punishment.corruptionLevel
            N == punishment'.corruptionLevel
            T == now' - analyzer.gameStartTime
            n == Len(data.snake)
        IN  /\ N <= L + 1
            /\ (L < 3 /\ Reached(L + 1, T, n)) => N = L + 1
            /\ hist'.triggered = IF N > L THEN N ELSE 0]_vars

\* C3 witness: the tick evaluated at level 0 with the level-3 threshold met
\* has entered level 1 and reported it.
C3_Witness ==
    /\ hist.op = "gameUpdate"
    /\ hist.prevLevel = 0
    /\ now - analyzer.gameStartTime >= 30000
    /\ punishment.corruptionLevel = 1
    /\ hist.triggered = 1

\* C4: the level goes down only in onGameStart; onGameEnd leaves the
\* punishment system as it is and reports its level, and the level reported
\* by a game-over state is the level of the system as long as that state is
\* on the screen.
C4_LevelKeptOverDeath ==
    [][/\ punishment'.corruptionLevel < punishment.corruptionLevel => StartStep
       /\ EndStep => /\ punishment'.corruptionLevel = punishment.corruptionLevel
                     /\ ui'.aiState.corruptionLevel = punishment.corruptionLevel
       /\ ui'.aiState.isGameOver =>
              ui'.aiState.corruptionLevel = punishment'.corruptionLevel]_vars

\* C4 witness: onGameEnd has run on a session that died at level 2 or more.
C4_Witness ==
    /\ hist.op = "onGameEnd"
    /\ ui.aiState.isGameOver
    /\ punishment.corruptionLevel >= 2
    /\ ui.aiState.corruptionLevel = punishment.corruptionLevel

\* The state handed to the screen shows no interference.
ScreenZeroed(a) ==
    /\ ~a.isActive
    /\ a.speedMultiplier = SpeedOne
    /\ a.fakeFoods = <<>>
    /\ a.environmentalBlocks = <<>>

C6_MultiplierInRange ==
    /\ punishment.speedMultiplier >= SpeedOne \div 2
    /\ punishment.speedMultiplier <= 3 * SpeedOne
    /\ data.speedMultiplier >= SpeedOne \div 2
    /\ data.speedMultiplier <= 3 * SpeedOne

\* C6 witness: a tick inside a surge has left the multiplier at 3.0.
C6_Witness ==
    /\ hist.op = "gameUpdate"
    /\ punishment.speedSurgeActive
    /\ punishment.speedMultiplier = 3 * SpeedOne
    /\ data.speedMultiplier = 3 * SpeedOne

\* C7 as stated: the primary decoy that has been consumed is no longer in
\* the active decoy set of the punishment system.
C7_ConsumedDecoyInactive ==
    (hist.op = "gameUpdate" /\ hist.primaryHit) => ~punishment.fakeFood.active

\* C8: the step that moves the head onto a decoy keeps the game going and
\* changes score and length only by a real objective on that cell, which it
\* consumes.
C8_DecoyNeverBlocks ==
    [][(TickStep /\ hist'.decoyHits > 0) =>
        LET onFood == data'.snake[1] = data.food
        IN  /\ data'.gameState = "PLAYING"
            /\ data'.moveCount = data.moveCount + 1
            /\ data'.score = data.score + (IF onFood THEN 10 ELSE 0)
            /\ Len(data'.snake) = Len(data.snake) + (IF onFood THEN 1 ELSE 0)
            /\ onFood => punishment'.lastFoodEaten = now']_vars

\* C8 witness: the head has moved onto a cell holding a decoy and the real
\* objective, and the objective has been consumed.
C8_Witness ==
    /\ hist.op = "gameUpdate"
    /\ hist.decoyHits > 0
    /\ hist.headOnFood
    /\ data.gameState = "PLAYING"
    /\ punishment.lastFoodEaten = now

\* The rules of the classifier in their order, and what each returns.
RuleHolds(m, i) ==
    CASE i = 1 -> m.totalSessions < 2
      [] i = 2 -> m.wallHuggingFrequency > 600
      [] i = 3 -> m.spiralBehaviorDetected
      [] i = 4 -> m.improvementTrend > 300 /\ m.averageScore > 20000
      [] i = 5 -> /\ m.lengthBasedGreedThreshold > 500
                  /\ 10 * m.totalDeaths > 7 * m.totalSessions
      [] i = 6 -> m.averageReactionTime > 800 /\ m.comfortZoneSize < 300
      [] i = 7 -> /\ m.patternRepetition > 400
                  /\ \E d \in {"left", "right", "up", "down"} : m.turnBias[d] > 400
RuleType ==
    <<"cautious", "wall_hugger", "spiral_addict", "improving", "greedy", "erratic",
      "predictable">>

\* C9: classifyBehavior returns one of the seven archetypes, that of the
\* first rule that holds, cautious when none does; metrics meeting the
\* wall-hugger and the predictable thresholds classify as wall-hugger.
C9_FirstRuleWins ==
    cls.done =>
        /\ cls.out \in Archetypes
        /\ \A i \in 1 .. 7 :
               (RuleHolds(cls.m, i) /\ \A j \in 1 .. (i - 1) : ~RuleHolds(cls.m, j))
                   => cls.out = RuleType[i]
        /\ (\A i \in 1 .. 7 : ~RuleHolds(cls.m, i)) => cls.out = "cautious"

\* C9 witness: metrics of two or more sessions meeting the wall-hugger and
\* the predictable rule were classified as wall-hugger.
C9_Witness ==
    /\ cls.done
    /\ ~RuleHolds(cls.m, 1) /\ RuleHolds(cls.m, 2) /\ RuleHolds(cls.m, 7)
    /\ cls.out = "wall_hugger"

\* C10: with fewer than 2 completed sessions every state handed to the
\* screen is classified cautious, and a session started with 0 completed
\* sessions gets the new-session commentary, whatever has been recorded.
C10_CautiousAndNewSession ==
    /\ Len(tracker.sessions) < 2 => ui.aiState.behaviorType = "cautious"
    /\ (hist.op = "handleStart" /\ Len(tracker.sessions) = 0) =>
           analyzer.commentaryEvents = <<Event("NEW_SESSION", "system", "normal")>>

\* C10 witness: a second session has started with no session completed and
\* moves recorded (the first one was abandoned by a manual reset).
C10_Witness ==
    /\ hist.op = "handleStart"
    /\ tracker.sessionCounter = 2
    /\ Len(tracker.sessions) = 0
    /\ tracker.persistent # ZeroPersistent
    /\ ui.aiState.behaviorType = "cautious"
    /\ analyzer.commentaryEvents = <<Event("NEW_SESSION", "system", "normal")>>

\* A step is the call of a hook on its own.
CallStep == played' = played + 1 /\ call'.op # "none"

\* C11: while no session is active, onMove, onGameUpdate and onGameEnd
\* leave the tracker (its window of completed sessions and its process-wide
\* counters), the punishment state (the corruption level and the rest of the
\* interference) and the analyzer as they are; onGameUpdate returns the
\* neutral result (multiplier 1.0, no decoys, no obstacles, no commentary
\* events) and onGameEnd the default state.
C11_NoSessionNoEffect ==
    [][(/\ CallStep
        /\ analyzer.currentSessionId = 0
        /\ call'.op \in {"onMove", "onGameUpdate", "onGameEnd"})
       => /\ tracker' = tracker
          /\ punishment' = punishment
          /\ analyzer' = analyzer
          /\ call'.op = "onGameUpdate"
                => /\ call'.speedMultiplier = SpeedOne
                   /\ call'.fakeFoods = <<>>
                   /\ call'.environmentalBlocks = <<>>
                   /\ call'.commentaryEvents = <<>>
          /\ call'.op = "onGameEnd" => call'.aiState = DefaultState]_vars

\* onGameUpdate was called after a session that had escalated and sped up
\* was over.
C11_Witness ==
    /\ call.op = "onGameUpdate"
    /\ ~call.hadSession
    /\ Len(tracker.sessions) >= 1
    /\ punishment.corruptionLevel >= 1
    /\ punishment.speedMultiplier > SpeedOne

\* The events of the last batch the component handled had a high-priority
\* one among them.
HighInBatch == \E i \in 1 .. Len(disp.batch) : disp.batch[i].priority = "high"

\* C12: a high-priority event is never delayed or dropped: once the
\* component has handled the events of a tick with a high-priority event
\* among them, the message on display is that of a high-priority event,
\* whatever the time since the last commentary and whatever the queue holds.
C12_HighEventOnDisplay ==
    HighInBatch => disp.shownPriority = "high"

PriorityRank(e) ==
    CASE e.priority = "high" -> 0
      [] e.priority = "normal" -> 1
      [] OTHER -> 2

RegistrationRank(e) ==
    CASE e.message = "WIN" -> 0
      [] e.message = "CORRUPTION" -> 1
      [] e.message = "SPEED" -> 2
      [] e.message = "ENVIRONMENT" -> 3
      [] e.message = "FAKE_FOOD" -> 4
      [] OTHER -> 5

\* C14: the events one onGameUpdate returns are ordered by priority, high
\* before normal before low, and within one priority in registration order.
C14_EventsInPriorityOrder ==
    \A i, j \in 1 .. Len(call.commentaryEvents) :
        i < j => LET a == call.commentaryEvents[i]
                     b == call.commentaryEvents[j]
                 IN  \/ PriorityRank(a) < PriorityRank(b)
                     \/ /\ PriorityRank(a) = PriorityRank(b)
                        /\ RegistrationRank(a) <= RegistrationRank(b)

\* The texts of the commentary with one wording.
FixedTexts ==
    {"WIN", "ENVIRONMENT", "NEW_SESSION",
     "TAUNT_CAUTIOUS", "TAUNT_PREDICTABLE", "TAUNT_COMFORT"}

\* C15: no message is put on display twice in a row: a step that puts a
\* message of fixed wording on display replaces a different message.
C15_NoRepeatOnDisplay ==
    [][(/\ disp'.lastCommentaryTime # disp.lastCommentaryTime
        /\ disp'.lastCommentaryTime = now'
        /\ disp'.currentCommentary \in FixedTexts)
       => disp'.currentCommentary # disp.currentCommentary]_vars

\* C16: in every state with a corruption level below 2 the obstacle set is
\* empty, and the set grows only in a tick that was evaluated at level 2 or 3.
C16_ObstaclesOnlyFromLevelTwo ==
    /\ [](punishment.corruptionLevel < 2 => punishment.environmentalBlocks = <<>>)
    /\ [][Len(punishment'.environmentalBlocks) > Len(punishment.environmentalBlocks)
            => TickStep /\ punishment'.corruptionLevel >= 2]_vars

\* A tick at level 2 or 3 has just added an obstacle.
C16_Witness ==
    /\ hist.op = "gameUpdate"
    /\ punishment.corruptionLevel >= 2
    /\ Len(punishment.environmentalBlocks) >= 1
    /\ punishment.foodEatenSinceLastBlock = 0

\* The cells on which generateBlockPosition may not place an obstacle: the
\* snake, the food, the obstacles there are, the head's 8-neighbourhood.
Forbidden(blocks, snake, food) ==
    SeqToSet(snake) \cup {food} \cup SeqToSet(blocks)
    \cup {c \in Cells : c[1] - snake[1][1] \in {-1, 0, 1} /\
                         c[2] - snake[1][2] \in {-1, 0, 1}}

\* C17: a tick adds at most one obstacle, at the end of the list, and the
\* cell it adds is on no snake segment, not on the food, not on an obstacle
\* that was there, and neither on the head nor in its 8-neighbourhood; no
\* two obstacles share a cell.
C17_ObstaclePlacedOnValidCell ==
    /\ [](\A i, j \in 1 .. Len(punishment.environmentalBlocks) :
              i # j => punishment.environmentalBlocks[i] # punishment.environmentalBlocks[j])
    /\ [][punishment'.environmentalBlocks # punishment.environmentalBlocks
            => \E c \in Cells \ Forbidden(punishment.environmentalBlocks,
                                          data.snake, data.food) :
                   punishment'.environmentalBlocks =
                       Append(punishment.environmentalBlocks, c)]_vars

\* A second obstacle has been placed, by a sampling that first missed 49
\* times.
C17_Witness ==
    /\ call.op = "updateEnvironmentalBlocks"
    /\ Len(punishment.environmentalBlocks) = 2
    /\ call.position = punishment.environmentalBlocks[2]
    /\ call.attempts = MaxAttempts

\* Every one of the 50 candidates of the stream is a cell an obstacle may
\* not be placed on.
AllMissed(stream, blocks, snake, food) ==
    {Candidate(stream, attempt, snake) : attempt \in 0 .. (MaxAttempts - 1)}
        \subseteq Forbidden(blocks, snake, food)

\* C18: a tick in which the win condition holds, or in which all 50
\* candidates are invalid, adds no obstacle and keeps the obstacle set and
\* the count of objectives since the last obstacle, so that the spawn
\* condition still holds at the next tick; no sampling makes more than 50
\* attempts.
C18_NoSpawnWhenSamplingFails ==
    [][call'.op = "updateEnvironmentalBlocks"
       => /\ call'.attempts <= MaxAttempts
          /\ (\/ call'.hasWon
              \/ AllMissed(call'.stream, punishment.environmentalBlocks,
                           data.snake, data.food))
             => /\ punishment' = punishment
                /\ call'.position = NoCell]_vars

\* At level 2 with five objectives consumed, 50 candidates were sampled and
\* missed, though the next one of the stream was free: no obstacle, and the
\* count that triggers the spawn still stands.
C18_Witness ==
    /\ call.op = "updateEnvironmentalBlocks"
    /\ ~call.hasWon
    /\ call.attempts = MaxAttempts
    /\ call.position = NoCell
    /\ call.stream.then \notin
           Forbidden(punishment.environmentalBlocks, data.snake, data.food)
    /\ punishment.corruptionLevel = 2
    /\ punishment.foodEatenSinceLastBlock >= 5

\* C19: after every sequence of sessions and recorded moves, the
\* boundary-hugging frequency, the comfort-zone size, the risk tolerance and
\* the pattern repetition of calculateMetrics lie between 0 and 1.
C19_MetricsInUnitRange ==
    LET m == CalculateMetricsFull(call)
    IN  /\ m.wallHuggingFrequency \in 0 .. 1000
        /\ m.comfortZoneSize \in 0 .. 1000
        /\ m.riskTolerance \in 0 .. 1000
        /\ m.patternRepetition \in 0 .. 1000

\* Two sessions are over, with moves on the wall and in the middle and a
\* repeated run of directions: each of the four metrics is strictly inside
\* its range but the risk tolerance, which is not 0.
C19_Witness ==
    LET m == CalculateMetricsFull(call)
    IN  /\ Len(call.sessions) = 2
        /\ ~call.hasSession
        /\ m.wallHuggingFrequency \in 1 .. 999
        /\ m.comfortZoneSize \in 1 .. 999
        /\ m.riskTolerance \in 1 .. 999
        /\ m.patternRepetition \in 1 .. 999

\* d2 follows d1 in the clockwise cycle UP, RIGHT, DOWN, LEFT.
ClockwiseNext(d1, d2) ==
    <<d1, d2>> \in {<<"UP", "RIGHT">>, <<"RIGHT", "DOWN">>,
                    <<"DOWN", "LEFT">>, <<"LEFT", "UP">>}

\* Four consecutive directions of s from position i on turn the same way
\* three times.
CycleAt(s, i) ==
    \/ \A k \in i .. (i + 2) : ClockwiseNext(s[k], s[k + 1])
    \/ \A k \in i .. (i + 2) : ClockwiseNext(s[k + 1], s[k])

\* C20: recording a direction counts a cyclic pattern only once 8
\* directions of the session are there, and then exactly when 4 consecutive
\* ones of the most recent 8 are a rotation of the clockwise or of the
\* counterclockwise cycle: it does for either cycle repeated twice from any
\* starting direction, and does not for 8 identical directions.
C20_CycleDetection ==
    [][call'.op = "recordMove"
       => LET h == call'.directionHistory
              r == LastN(h, 8)
              counted == call'.spiralPatterns = call.spiralPatterns + 1
          IN  /\ call'.spiralPatterns \in {call.spiralPatterns,
                                           call.spiralPatterns + 1}
              /\ Len(h) < 8 => ~counted
              /\ Len(h) >= 8
                    => /\ counted <=> \E i \in 1 .. 5 : CycleAt(r, i)
                       /\ (\A i \in 1 .. 7 : ClockwiseNext(r[i], r[i + 1]))
                             => counted
                       /\ (\A i \in 1 .. 7 : ClockwiseNext(r[i + 1], r[i]))
                             => counted
                       /\ (\A i \in 1 .. 7 : r[i] = r[i + 1]) => ~counted]_vars

\* The counterclockwise cycle from LEFT, twice, has been recorded and
\* counted.
C20_Witness ==
    /\ call.op = "recordMove"
    /\ call.directionHistory =
           <<"LEFT", "DOWN", "RIGHT", "UP", "LEFT", "DOWN", "RIGHT", "UP">>
    /\ call.spiralPatterns = 1

\* C21: the window of completed sessions never holds more than 10 sessions,
\* and it is the most recent completed sessions in completion order:
\* endSession appends the ended session and evicts the oldest beyond 10.
C21_WindowIsLastTen ==
    /\ Len(tracker.sessions) <= 10
    /\ tracker.sessions = LastN(call.completed, 10)

\* An eleventh session has been completed and the first one evicted.
C21_Witness ==
    /\ call.op = "endSession"
    /\ Len(call.completed) > 10
    /\ Len(tracker.sessions) = 10
    /\ tracker.sessions[1] # call.completed[1]

RefreshStep == hist'.op \in {"refresh", "onMove", "onGameEnd"} /\ ui' # ui

\* C23: the escalation state, the interference state and the current
\* session are written only by hooks called from the game-logic tick; the
\* UI-refresh tick reads and calls no hook that writes any of them.
C23_RefreshOnlyReads ==
    [][RefreshStep => /\ punishment' = punishment
                      /\ tracker' = tracker
                      /\ analyzer'.currentSessionId = analyzer.currentSessionId]_vars

\* C24: one move is recorded per move of the game: whenever the UI-refresh
\* tick has run in a game being played, the moves recorded in the current
\* session are the moves the game has made since the session started.
C24_OneRecordPerMove ==
    (/\ hist.op \in {"refresh", "onMove"}
     /\ data.gameState = "PLAYING"
     /\ tracker.hasSession)
        => tracker.sessionMoves = data.moveCount

\* C25: reset() cancels no delayed callback: the callbacks pending before a
\* reset are pending after it, and a callback that runs adds a regenerating
\* block to the state the system has then, whatever its level.
C25_ResetKeepsCallbacks ==
    [][/\ breaker'.resets # breaker.resets => breaker'.timers = breaker.timers
       /\ breaker'.op = "timer" /\ breaker' # breaker =>
              /\ Len(breaker'.corruption.regeneratingBlocks)
                     = Len(breaker.corruption.regeneratingBlocks) + 1
              /\ breaker'.corruption.level = breaker.corruption.level]_vars

\* The reappearance callback of a fake block hit before a reset has run
\* after the reset, before any event: a regenerating block at level 0.
C25_Witness ==
    /\ breaker.op = "timer"
    /\ breaker.fired.kind = "reappear"
    /\ breaker.fired.epoch < breaker.resets
    /\ ~breaker.touched
    /\ breaker.corruption.level = 0
    /\ breaker.corruption.blocksDestroyed = 0
    /\ breaker.corruption.regeneratingBlocks # <<>>

\* C26: a failing save raises no error to the caller that triggered it (no
\* rejection is left unhandled), leaves the ledger in memory unchanged and
\* sends no request again; a save is sent with the ledger as it is at the
\* call, whatever failed before.
C26_FailedSaveIsDropped ==
    /\ [](ledger.unhandled = 0)
    /\ [][/\ ledger'.failed # ledger.failed =>
                /\ ledger'.data = ledger.data
                /\ ledger'.hasSession = ledger.hasSession
                /\ ledger'.gameLaunches = ledger.gameLaunches
                /\ ledger'.issued = ledger.issued
                /\ ledger'.stored = ledger.stored
                /\ Len(ledger'.requests) = Len(ledger.requests) - 1
          /\ ledger'.issued # ledger.issued =>
                /\ ledger'.issued = ledger.issued + 1
                /\ ledger'.requests
                       = Append(ledger.requests,
                                [body |-> ledger'.data, after |-> ledger.failed])]_vars

\* A save failed, and a save issued after the failure with a later ledger
\* has been stored.
C26_Witness ==
    /\ ledger.op = "saved"
    /\ ledger.settledAfter >= 1
    /\ ledger.stored = ledger.data
    /\ ledger.stored # ledger.lastFailed
    /\ ledger.requests = <<>>

\* C27: when the real food has been eaten at escalation level 2 or more,
\* the first game update evaluated more than 1 s later activates a decoy.
C27_DecoyAfterEveryFood ==
    [][/\ hist'.op = "gameUpdate"
       /\ analyzer.currentSessionId # 0
       /\ punishment.corruptionLevel >= 2
       /\ punishment.lastFoodEaten = now
       /\ now' - punishment.lastFoodEaten > 1000
       => /\ ~punishment.fakeFood.active
          /\ punishment'.fakeFood.active]_vars

\* C28: once a surge has ended and an evaluation has followed with no food
\* eaten since, the multiplier is the one the same evaluations give when no
\* surge occurs.
C28_SurgeDecaysBack ==
    esc.after = 1 => punishment.speedMultiplier = esc.twin.speedMultiplier

\* A game update evaluated in a session in which no comfort increment, no
\* surge and no fluctuation has occurred so far.
BaselineOnly ==
    /\ hist'.op = "gameUpdate"
    /\ analyzer.currentSessionId # 0
    /\ punishment.lastFoodEaten = 0
    /\ punishment'.lastSpeedIncrease = 0
    /\ punishment'.speedEscalationTimer = 0
    /\ ~punishment'.speedSurgeActive

\* C29 as stated: with no comfort increment, surge or fluctuation, the
\* multiplier is 1 + (elapsedSeconds / 30) * 0.5 up to 30 s and never
\* exceeds 1.5.
C29_BaselineCappedAtHalf ==
    [][BaselineOnly =>
          /\ now' - analyzer.gameStartTime <= 30000 =>
                 punishment'.speedMultiplier = SpeedOne + (now' - analyzer.gameStartTime)
          /\ punishment'.speedMultiplier <= (SpeedOne * 3) \div 2]_vars

\* C29, amended: with no comfort increment, surge or fluctuation, the
\* multiplier is 1 + (elapsedSeconds / 30) * 0.5 at every evaluation, beyond
\* 30 s as well, up to the cap of 3.0.
C29_BaselineKeepsGrowing ==
    [][BaselineOnly =>
          punishment'.speedMultiplier
              = Min(SpeedCap, SpeedOne + (now' - analyzer.gameStartTime))]_vars

\* An evaluation 60 s into such a session has given the multiplier 2.0.
C29_Witness ==
    /\ hist.op = "gameUpdate"
    /\ analyzer.currentSessionId # 0
    /\ punishment.lastFoodEaten = 0
    /\ punishment.lastSpeedIncrease = 0
    /\ punishment.speedEscalationTimer = 0
    /\ now - analyzer.gameStartTime = 60000
    /\ punishment.speedMultiplier = 2 * SpeedOne

\* The greed rule applies to the metrics of the last evaluation, and the
\* wall weight the other rules gave on that evaluation.
GreedRule ==
    /\ esc.ticks > 0
    /\ esc.m.lengthBasedGreedThreshold > 300
    /\ esc.m.wallHuggingFrequency < 200
OtherRulesWallBias ==
    IF esc.m.comfortZoneSize > 700 THEN 600 ELSE esc.before.wallBias
WeightsInUnitRange ==
    /\ punishment.foodBias.wallBias \in 0 .. 1000
    /\ punishment.foodBias.bodyBias \in 0 .. 1000

\* C30 as stated: both weights are in [0,1], and when the greed rule
\* applies the wall weight is at least what the other rules gave it and at
\* most 0.8.
C30_GreedRuleOnlyRaises ==
    /\ WeightsInUnitRange
    /\ GreedRule =>
          /\ punishment.foodBias.wallBias >= OtherRulesWallBias
          /\ punishment.foodBias.wallBias <= 800

\* C30, amended: both weights are in [0,1]; when the greed rule applies the
\* wall weight is min(0.8, greed ratio), whatever the other rules gave it;
\* otherwise it is what the other rules gave it.
C30_GreedRuleOverwrites ==
    /\ WeightsInUnitRange
    /\ GreedRule =>
          /\ punishment.foodBias.wallBias = Min(800, esc.m.lengthBasedGreedThreshold)
          /\ punishment.foodBias.wallBias > 300
    /\ esc.ticks > 0 /\ ~GreedRule =>
          punishment.foodBias.wallBias = OtherRulesWallBias

\* The greed rule has lowered the 0.6 of the comfort rule to 0.4.
C30_Witness ==
    /\ GreedRule
    /\ esc.m.comfortZoneSize > 700
    /\ punishment.foodBias.wallBias = 400

\* C31: an obstacle is added at level 2 only with at least 5, at level 3
\* only with at least 2 objectives consumed since the previous obstacle (or
\* since the start); a tick adds at most one obstacle and restarts the count;
\* so twice the number of obstacles is at most the number of objectives
\* consumed.
C31_SpawnCadence ==
    /\ [](2 * Len(punishment.environmentalBlocks) <= call.eaten)
    /\ [][punishment'.environmentalBlocks # punishment.environmentalBlocks =>
              /\ Len(punishment'.environmentalBlocks)
                     = Len(punishment.environmentalBlocks) + 1
              /\ punishment.corruptionLevel = 2 =>
                     punishment.foodEatenSinceLastBlock >= 5
              /\ punishment.corruptionLevel = 3 =>
                     punishment.foodEatenSinceLastBlock >= 2
              /\ punishment.corruptionLevel \in {2, 3}
              /\ punishment'.foodEatenSinceLastBlock = 0]_vars

\* At level 3 a second obstacle has been added when exactly four objectives
\* had been consumed.
C31_Witness ==
    /\ call.op = "updateEnvironmentalBlocks"
    /\ call.position # NoCell
    /\ punishment.corruptionLevel = 3
    /\ Len(punishment.environmentalBlocks) = 2
    /\ call.eaten = 4

\* C32: the first move recorded in a session adds nothing to the cumulative
\* near-boundary time and alive time, and a later move adds at most the time
\* since the previous move of its session.
C32_FirstMoveAddsNothing ==
    [][call'.op = "recordMove" /\ call.hasSession =>
          IF call.currentMoves = <<>>
          THEN /\ call'.totalGameTime = call.totalGameTime
               /\ call'.totalWallHuggingTime = call.totalWallHuggingTime
          ELSE /\ call'.totalGameTime = call.totalGameTime + (now' - call.lastMoveTime)
               /\ call'.totalWallHuggingTime - call.totalWallHuggingTime
                      \in {0, now' - call.lastMoveTime}]_vars

\* C33: the greed ratio is finite, and the sessions averaged are those of
\* the last five completed sessions that have a positive duration.
C33_GreedFinite ==
    LET recent == LastN(call.sessions, 5)
    IN  /\ ~CalculateGreedThreshold(recent).infinite
        /\ \A i \in ValidSessions(recent) :
               recent[i].endTime - recent[i].startTime > 0

C35_AbandonedSessionNotRecorded ==
    [][hist'.op = "handleStart" /\ tracker.hasSession =>
          /\ tracker'.hasSession
          /\ tracker'.sessionMoves = 0
          /\ tracker'.sessions = tracker.sessions
          /\ tracker'.window = tracker.window
          /\ tracker'.persistent = tracker.persistent
          /\ CalculateMetrics(tracker').totalSessions
                 = CalculateMetrics(tracker).totalSessions]_vars

\* A second session has started over a first one that recorded a move and
\* was reset by hand: no session is completed, the counters are not zero.
C35_Witness ==
    /\ hist.op = "handleStart"
    /\ tracker.sessionCounter = 2
    /\ tracker.hasSession
    /\ tracker.sessions = <<>>
    /\ tracker.persistent # ZeroPersistent

\* C36: a move recorded in an active session is added to that session and
\* leaves the completed sessions, and with them the comfort-zone size, the
\* risk tolerance and the pattern repetition that calculateMetrics returns
\* (the two inputs of the comfort-detected trigger among them), as they were.
C36_MoveKeepsWindowMetrics ==
    [][call'.op = "recordMove" /\ call.hasSession =>
          LET before == CalculateMetricsFull(call)
              after == CalculateMetricsFull(call')
          IN  /\ call'.sessions = call.sessions
              /\ Len(call'.currentMoves) = Len(call.currentMoves) + 1
              /\ after.comfortZoneSize = before.comfortZoneSize
              /\ after.riskTolerance = before.riskTolerance
              /\ after.patternRepetition = before.patternRepetition]_vars

\* A move on the wall has been recorded in a session that follows one
\* played in the middle of the grid: the comfort-zone size is still that of
\* the completed session, and no move counts as risky.
C36_Witness ==
    /\ call.op = "recordMove"
    /\ call.hasSession
    /\ Len(call.sessions) = 1
    /\ Len(call.currentMoves) >= 1
    /\ call.currentMoves[Len(call.currentMoves)].wallDistance = 0
    /\ CalculateMetricsFull(call).comfortZoneSize = 300
    /\ CalculateMetricsFull(call).riskTolerance = 0

\* C37: if from some point on a session is neither ended nor replaced, and
\* its ticks keep being evaluated, the escalation level reaches 3 and stays
\* 3; a tick never lowers the level, and the level is 3 from the third tick
\* evaluated at or after 30 s of survival, whatever the snake length.
C37_LevelReachesThree ==
    /\ <>[](esc.op = "tick") => <>[](punishment.corruptionLevel = 3)
    /\ [](esc.op = "tick" /\ esc.late >= 3 => punishment.corruptionLevel = 3)
    /\ [][esc'.op = "tick" =>
              punishment'.corruptionLevel >= punishment.corruptionLevel]_vars

\* The first three ticks of a session were all evaluated at or after 30 s
\* with a snake of one cell: the level climbed from 0 to 3 one tick at a
\* time.
C37_Witness ==
    /\ esc.op = "tick"
    /\ esc.ticks = 3
    /\ esc.late = 3
    /\ esc.snakeLength = 1
    /\ punishment.corruptionLevel = 3

\* C38: in every reachable game state the food is on no cell that holds an
\* environmental block, neither among the blocks the punishment system
\* keeps nor among those the game collides with.
C38_FoodOffBlocks ==
    /\ \A i \in 1 .. Len(punishment.environmentalBlocks) :
           punishment.environmentalBlocks[i] # data.food
    /\ \A i \in 1 .. Len(data.environmentalBlocks) :
           data.environmentalBlocks[i] # data.food

\* C39: the step that activates the primary decoy puts it on the cell the
\* food had when the tick was evaluated, which is still the food's cell
\* after the step unless the snake ate the food in that very move; while
\* the decoy stays active its position is the same, wherever the food is
\* placed afterwards.
C39_DecoyBornOnFood ==
    [][/\ ~punishment.fakeFood.active /\ punishment'.fakeFood.active =>
             /\ hist'.op = "gameUpdate"
             /\ punishment'.fakeFood.position = data.food
             /\ ~hist'.headOnFood => punishment'.fakeFood.position = data'.food
       /\ punishment.fakeFood.active /\ punishment'.fakeFood.active =>
             punishment'.fakeFood.position = punishment.fakeFood.position]_vars

\* The food has been eaten and placed elsewhere after the decoy appeared on
\* it: the active decoy is on the cell the food has left.
C39_Witness ==
    /\ punishment.fakeFood.active
    /\ hist.op = "gameUpdate"
    /\ hist.headOnFood
    /\ data.score >= 20
    /\ punishment.fakeFood.position # data.food
    /\ punishment.fakeFood.position \in SeqToSet(data.snake)

\* C40: after every onGameEnd the consecutive-failure counter is 0, 1 or 2.
\* A non-winning end below 30 adds one to it and, when that makes 3, makes
\* the repeated-failure recommendation and sets it to 0; a non-winning end
\* at 30 or above sets it to 0; a winning end, or an end without a session,
\* leaves it as it was.  So the repeated-failure recommendation is made at
\* the third, sixth, ... non-winning end below 30 in a row, and at no other.
C40_FailureCounter ==
    /\ analyzer.consecutiveFailures \in 0 .. 2
    /\ analyzer.consecutiveFailures = esc.low % 3
    /\ esc.op = "end" =>
           LET c == analyzer.consecutiveFailures
               low == ~esc.hasWon /\ esc.score < 30
           IN  /\ ~esc.evaluated \/ esc.hasWon => c = esc.before
               /\ esc.evaluated /\ low =>
                      c = (IF esc.before = 2 THEN 0 ELSE esc.before + 1)
               /\ esc.evaluated /\ ~esc.hasWon /\ esc.score >= 30 => c = 0
               /\ esc.recommendation = "repeatedFailure" <=>
                      esc.evaluated /\ low /\ esc.low % 3 = 0

\* The third low-score end in a row, a win among them not counted, has made
\* the repeated-failure recommendation.
C40_Witness ==
    /\ esc.op = "end"
    /\ esc.recommendation = "repeatedFailure"
    /\ esc.low = 3
    /\ analyzer.consecutiveFailures = 0
    /\ Len(tracker.sessions) = 4
    /\ \E i \in 1 .. 4 : tracker.sessions[i].deathCause = Null

====
